---- MODULE Spec2Model ----
(***************************************************************************)
(* JetStream accounting, lifecycle and template dispatch of                *)
(* server/jetstream.go, as a state machine.                                *)
(*                                                                         *)
(* Byte quantities are counted in MiB.  Threads are goroutines; one step   *)
(* of a thread is one critical section of the code (the statements between *)
(* a Lock and its Unlock) or one call to a collaborator.                   *)
(***************************************************************************)
EXTENDS Integers, Sequences, FiniteSets, TLC

\* ------------------------------------------------------------------------
\* Bounds of the model.
\* ------------------------------------------------------------------------
MaxCalls == 4      \* calls of the public API started in one behaviour
MaxJsa == 3        \* jsAccount objects allocated in one behaviour
MaxJs == 2         \* jetStream objects allocated in one behaviour

Threads == {"t1", "t2"}
Accounts == {"G", "B"}

\* ------------------------------------------------------------------------
\* Program constants (jetstream.go:1460-1466), in MiB.
\* ------------------------------------------------------------------------
JetStreamMaxStoreDefault == 1048576
JetStreamMaxMemDefault == 256
JetStreamStoreDir == "jetstream"
TempDir == "tmp"

\* Error values.  "nil" is the nil error.
ErrNil == "nil"
ErrSingleServer == "jetstream restricted to single server mode for now"
ErrAlreadyEnabled == "jetstream already enabled"
ErrNotEnabled == "jetstream not enabled"
ErrAcctAlreadyEnabled == "jetstream already enabled for account"
ErrAcctNotEnabled == "jetstream not enabled for account"
ErrMemory == "insufficient memory resources available"
ErrStorage == "insufficient storage resources available"
ErrStoreCreate == "could not create storage directory"
ErrStoreNotDir == "storage directory is not a directory"
ErrStoreNotWritable == "storage directory is not writable"
ErrSubscribe == "Error setting up internal jetstream subscriptions"
ErrExport == "Error setting up jetstream service exports"
ErrGlobal == "Error enabling jetstream on the global account"
ErrImport == "Error setting up jetstream service imports for account"
ErrStreamsDir == "could not create storage streams directory"
ErrPanic == "panic"

\* A pointer that may be nil is a sequence of length 0 (nil) or 1.
Nil == << >>
Ptr(x) == << x >>

\* JetStreamAccountLimits (jetstream.go:43-48).
Limits(mem, sto, ms, mc) ==
    [MaxMemory |-> mem, MaxStore |-> sto, MaxStreams |-> ms, MaxConsumers |-> mc]

ZeroLimits == Limits(0, 0, 0, 0)

\* JetStreamConfig (jetstream.go:36-40).  A path is the sequence of its
\* elements; the empty path is the empty string of the code.
Config(mem, sto, dir) == [MaxMemory |-> mem, MaxStore |-> sto, StoreDir |-> dir]

\* Inputs of the calls.
LimitArgs == {Nil, Ptr(Limits(40, 40, 2, 2)), Ptr(Limits(-1, 40, -1, -1))}
ConfigArgs == {Nil, Ptr(Config(60, 60, << "d" >>))}
SysMemVals == {0, 8192}

VARIABLES
    standAlone,   \* s.standAloneMode()
    globalOnly,   \* s.globalAccountOnly()
    srvJs,        \* s.js: 0 is nil, else the id of a jetStream object
    jsObj,        \* the jetStream objects allocated so far
    nJs,          \* number of jetStream objects allocated
    jsaObj,       \* the jsAccount objects allocated so far
    nJsa,         \* number of jsAccount objects allocated
    accJs,        \* a.js of every account: 0 is nil, else a jsAccount id
    th,           \* the goroutines: position and locals of the running call
    calls,        \* calls started so far
    enabledOk,    \* history: a Server.EnableJetStream has returned nil
                  \* while no shutdownJetStream was running, and none
                  \* has started since
    held,         \* history: for every jsAccount, what the ledger holds
                  \* reserved on its behalf (reserved minus released)
    hist,         \* history: the calls that returned, in SpecUpdate
    streams,      \* jsa.streams of the account of SpecTemplate: the
                  \* config of every registered stream, by name
    templates,    \* jsa.templates of that account: nil, or the
                  \* StreamTemplate objects by name
    made,         \* history: how often AddStream has created a stream of
                  \* each name
    usage,        \* memReserved, memUsed, storeReserved and storeUsed of
                  \* that account's jsAccount
    tstore,       \* jsa.store of that account: which kind of template
                  \* store it is, and what a memory store holds
    disk,         \* the account's store directory: the persisted
                  \* templates, streams and consumers, what is damaged,
                  \* and the layout of the directory
    consumers,    \* the consumers registered with each registered stream
    server        \* the Server fields of reload.go: the config file, the
                  \* options, the TLS part of the server info, and as
                  \* history the Apply calls and the last reload's argument

vars == << standAlone, globalOnly, srvJs, jsObj, nJs, jsaObj, nJsa, accJs,
           th, calls, enabledOk, held, hist, streams, templates, made,
           usage, tstore, disk, consumers, server >>

\* What no call of the ledger changes.
env == << standAlone, globalOnly, hist, streams, templates, made, usage,
          tstore, disk, consumers, server >>

\* What no call of the registries changes.
ledger == << standAlone, globalOnly, hist, srvJs, jsObj, nJs, jsaObj, nJsa,
             accJs, enabledOk, held, server >>

\* What the dispatcher itself never touches.
stores == << usage, tstore, consumers >>

\* ------------------------------------------------------------------------
\* Objects.
\* ------------------------------------------------------------------------

\* jetStream (jetstream.go:179-186).  accounts maps an account to the id of
\* its jsAccount (0: no entry); accNil says the map itself is nil.
NoJs ==
    [config |-> Config(0, 0, << >>), accounts |-> [a \in Accounts |-> 0],
     accNil |-> TRUE, memReserved |-> 0, storeReserved |-> 0]

NewJs(cfg) ==
    [config |-> cfg, accounts |-> [a \in Accounts |-> 0],
     accNil |-> FALSE, memReserved |-> 0, storeReserved |-> 0]

\* jsAccount (jetstream.go:193-206), the fields of the ledger.
NoJsa == [js |-> 0, account |-> "", limits |-> ZeroLimits, storeDir |-> << >>]

NewJsa(j, a, limits, dir) ==
    [js |-> j, account |-> a, limits |-> limits, storeDir |-> dir]

\* StreamConfig with every field zero.
NoConfig ==
    [Name |-> << >>, Subjects |-> << >>, Storage |-> "", MaxBytes |-> 0,
     Replicas |-> 0, MaxConsumers |-> 0, Template |-> ""]

\* Locals of a goroutine.
Idle ==
    [pc |-> "idle", op |-> "", acc |-> "", argNil |-> FALSE,
     lim |-> ZeroLimits, js |-> 0, jsa |-> 0, old |-> ZeroLimits,
     dl |-> ZeroLimits, err |-> ErrNil, nested |-> FALSE,
     admitted |-> FALSE, seenMem |-> 0, seenStore |-> 0, seenIn |-> FALSE,
     wrote |-> FALSE, exact |-> TRUE, afterOk |-> FALSE, noShut |-> TRUE,
     snap |-> {}, tn |-> "", subj |-> << >>, cn |-> << >>,
     atLimit |-> FALSE, sawReg |-> FALSE, did |-> FALSE,
     cfg |-> NoConfig, out |-> NoConfig, seenN |-> 0, st |-> "",
     flag |-> FALSE, list |-> << >>, want |-> 0, last |-> ErrNil,
     msg |-> "", con |-> << >>, reply |-> ""]

\* ------------------------------------------------------------------------
\* Resource ledger (jetstream.go:940-989).
\* ------------------------------------------------------------------------

\* jetStream.dynamicAccountLimits
dynamicAccountLimits(js) ==
    Limits(js.config.MaxMemory, js.config.MaxStore, -1, -1)

\* jetStream.sufficientResources: the error it returns.
sufficientResourcesNoStore(js, limits) ==
    IF limits = Nil THEN ErrNil
    ELSE IF js.memReserved + limits[1].MaxMemory > js.config.MaxMemory
         THEN ErrMemory
         ELSE ErrNil

sufficientResources(js, limits) ==
    IF limits = Nil THEN ErrNil
    ELSE IF js.memReserved + limits[1].MaxMemory > js.config.MaxMemory
         THEN ErrMemory
         ELSE IF js.storeReserved + limits[1].MaxStore > js.config.MaxStore
              THEN ErrStorage
              ELSE ErrNil

\* jetStream.reserveResources: the jetStream after the call.
reserveResources(js, limits) ==
    IF limits = Nil THEN js
    ELSE [js EXCEPT
            !.memReserved =
                IF limits[1].MaxMemory > 0 THEN @ + limits[1].MaxMemory ELSE @,
            !.storeReserved =
                IF limits[1].MaxStore > 0 THEN @ + limits[1].MaxStore ELSE @]

\* jetStream.releaseResources: the jetStream after the call.
releaseResources(js, limits) ==
    IF limits = Nil THEN js
    ELSE [js EXCEPT
            !.memReserved =
                IF limits[1].MaxMemory > 0 THEN @ - limits[1].MaxMemory ELSE @,
            !.storeReserved =
                IF limits[1].MaxStore > 0 THEN @ - limits[1].MaxStore ELSE @]

\* What reserveResources adds for limits l, what releaseResources takes.
Pos(x) == IF x > 0 THEN x ELSE 0
Amount(l) == [mem |-> Pos(l.MaxMemory), store |-> Pos(l.MaxStore)]

\* diffCheckedLimits (jetstream.go:749-754).
diffCheckedLimits(a, b) ==
    Limits(b.MaxMemory - a.MaxMemory, b.MaxStore - a.MaxStore, 0, 0)

\* Server.dynJetStreamConfig (jetstream.go:1469-1484); sysMem is the value
\* sysmem.Memory() returns.
dynJetStreamConfig(storeDir, sysMem) ==
    Config(IF sysMem > 0 THEN (sysMem \div 4) * 3 ELSE JetStreamMaxMemDefault,
           JetStreamMaxStoreDefault,
           IF storeDir # << >> THEN Append(storeDir, JetStreamStoreDir)
           ELSE << TempDir, JetStreamStoreDir >>)

\* ------------------------------------------------------------------------
\* Streams and templates.  A name or a subject is the sequence of its
\* characters.
\* ------------------------------------------------------------------------
MaxDeliveries == 4   \* calls started in one behaviour of SpecTemplate

\* The subjects published, all matching the template's subject set.
Subjects == {<< "a", ".", "b" >>, << "a", "_", "b" >>, << "c" >>}

MemoryStorage == "memory"
FileStorage == "file"

ErrNameInUse == "stream name already in use"
ErrNotOwned == "stream not owned by template"
ErrMaxStreams == "maximum number of streams reached"
ErrReplicas == "replicas setting not allowed"
ErrMaxConsumers == "maximum consumers exceeds account limit"
ErrStore == "could not create the stream store"
ErrStreamNotFound == "stream not found"
ErrNoTemplate == "no template found"
ErrStoreDelete == "error deleting template from store"
ErrStreamDelete == "could not delete the stream"
ErrTemplateExists == "template already exists"
ErrStoreTemplate == "could not store the template"
ErrTemplateNamed == "template config name should be empty"
ErrStreamConfig == "invalid stream config"
ErrNoSysAccount == "system account not setup"
ErrProcessSub == "could not subscribe"

\* CanonicalName (jetstream.go:1834-1836): every "." becomes "_".
CanonicalName(name) ==
    [i \in 1..Len(name) |-> IF name[i] = "." THEN "_" ELSE name[i]]

\* StreamConfig, the fields this file reads.
StreamConfig(name, subjects, storage, template) ==
    [Name |-> name, Subjects |-> subjects, Storage |-> storage,
     MaxBytes |-> 0, Replicas |-> 1, MaxConsumers |-> 0,
     Template |-> template]

\* A StreamConfig with its limits given.
StreamCfg(name, storage, maxBytes, replicas, maxConsumers) ==
    [StreamConfig(name, << name >>, storage, "") EXCEPT
        !.MaxBytes = maxBytes, !.Replicas = replicas,
        !.MaxConsumers = maxConsumers]

\* StreamTemplate (jetstream.go:1519-1525) with its StreamTemplateConfig
\* (jetstream.go:1506-1510): tc is the internal client (FALSE: nil), sub
\* says that the subscriptions of that client deliver, reg that
\* jsa.templates holds the object under its name, and gone is history: a
\* StreamTemplate.Delete of the object has returned nil.
NewTemplate(name, max, config) ==
    [Name |-> name, MaxStreams |-> max, Config |-> config, tc |-> TRUE,
     streams |-> << >>, sub |-> TRUE, reg |-> TRUE, gone |-> FALSE]

\* jsa.templates is not nil and holds a template of this name.
Registered(tname) ==
    /\ ~templates.nil
    /\ tname \in DOMAIN templates.map
    /\ templates.map[tname].reg

\* A map with the entry k -> v added, and with the entry k removed.
Put(f, k, v) == [x \in (DOMAIN f) \cup {k} |-> IF x = k THEN v ELSE f[x]]
EmptyMap == [x \in {} |-> 0]

\* The accounting fields of a jsAccount (jetstream.go:198-201).
ZeroUsage ==
    [memReserved |-> 0, memUsed |-> 0, storeReserved |-> 0, storeUsed |-> 0]

\* jsa.store (jetstream.go:202): no store yet.
NoStore == [kind |-> "nil", mem |-> EmptyMap]

\* A server started without a config file and with the zero Options; the
\* calls of jetstream.go never touch these fields.
NoServer ==
    [configFile |-> "", opts |-> << >>, info |-> << >>, applied |-> << >>,
     arg |-> << >>]

\* No file of the store directory is damaged.
NoDamage == EmptyMap

\* An empty store directory of the present layout: templates and streams
\* are the metafiles under "templates" and "streams", consumers those of
\* the consumer directories of each stream, damage says which entries
\* have damaged files and how, sdir is whether the "streams" directory
\* exists, and legacy holds the stream directories that lie directly in
\* the store directory (jetstream.go:494-505).
EmptyDisk == [templates |-> EmptyMap, streams |-> EmptyMap,
              consumers |-> EmptyMap, damage |-> NoDamage,
              sdir |-> TRUE, legacy |-> EmptyMap]

NoRegistries ==
    /\ server = NoServer
    /\ streams = EmptyMap
    /\ templates = [nil |-> TRUE, map |-> EmptyMap]
    /\ made = [n \in {CanonicalName(x) : x \in Subjects} |-> 0]
    /\ usage = ZeroUsage
    /\ tstore = NoStore
    /\ disk = EmptyDisk
    /\ consumers = EmptyMap

\* Account.LookupStream (jetstream.go:684-699) on an enabled account: the
\* error it returns.
LookupStream(name) ==
    IF name \in DOMAIN streams THEN ErrNil ELSE ErrStreamNotFound

\* jsAccount.checkLimits with its checks in another order: the replicas
\* after the storage.
checkLimitsLate(limits, nStreams, memRes, storeRes, config) ==
    LET mb == config.MaxBytes * config.Replicas
        clamped == [config EXCEPT !.MaxConsumers = limits.MaxConsumers]
        e == IF limits.MaxStreams > 0 /\ nStreams >= limits.MaxStreams
             THEN ErrMaxStreams
             ELSE IF config.MaxConsumers > 0
                     /\ config.MaxConsumers > limits.MaxConsumers
             THEN ErrMaxConsumers
             ELSE IF config.MaxBytes > 0 /\ config.Storage = MemoryStorage
                     /\ memRes + mb > limits.MaxMemory
             THEN ErrMemory
             ELSE IF config.MaxBytes > 0 /\ config.Storage = FileStorage
                     /\ storeRes + mb > limits.MaxStore
             THEN ErrStorage
             ELSE IF config.Replicas # 1 THEN ErrReplicas
             ELSE ErrNil
    IN  [err |-> e,
         config |-> IF e \in {ErrMaxStreams, ErrMaxConsumers}
                    THEN config ELSE clamped]

\* jsAccount.checkLimits (jetstream.go:876-905): the error, and the config
\* with MaxConsumers as the function leaves it.
checkLimits(limits, nStreams, memRes, storeRes, config) ==
    LET mb == config.MaxBytes * config.Replicas
        clamped == [config EXCEPT !.MaxConsumers = limits.MaxConsumers]
        e == IF limits.MaxStreams > 0 /\ nStreams >= limits.MaxStreams
             THEN ErrMaxStreams
             ELSE IF config.Replicas # 1 THEN ErrReplicas
             ELSE IF config.MaxConsumers > 0
                     /\ config.MaxConsumers > limits.MaxConsumers
             THEN ErrMaxConsumers
             ELSE IF config.MaxBytes > 0 /\ config.Storage = MemoryStorage
                     /\ memRes + mb > limits.MaxMemory
             THEN ErrMemory
             ELSE IF config.MaxBytes > 0 /\ config.Storage = FileStorage
                     /\ storeRes + mb > limits.MaxStore
             THEN ErrStorage
             ELSE ErrNil
    IN  [err |-> e,
         config |-> IF e \in {ErrMaxStreams, ErrReplicas, ErrMaxConsumers}
                    THEN config ELSE clamped]

\* Ownership by the list of the template object, in jsa.templates or not.
checkTemplateOwnershipAny(tname, sname) ==
    /\ tname \in DOMAIN templates.map
    /\ \E i \in 1..Len(templates.map[tname].streams) :
            templates.map[tname].streams[i] = sname

\* jsAccount.checkTemplateOwnership (jetstream.go:1794-1809).
checkTemplateOwnership(tname, sname) ==
    IF templates.nil THEN FALSE
    ELSE IF ~Registered(tname) THEN FALSE
    ELSE \E i \in 1..Len(templates.map[tname].streams) :
            templates.map[tname].streams[i] = sname

\* Account.AddStream on the enabled account, as the specification describes
\* it (section 4.4): the account must be enabled (checkForJetStream), the
\* name must be free, checkLimits must pass, a stream
\* that names a template must be owned by it, the store must open; then the
\* stream is registered.  The error it returns; storeOk is whether the
\* store could be opened.
AddStreamErr(limits, config, storeOk) ==
    LET lim == checkLimits(limits, Cardinality(DOMAIN streams),
                           usage.memReserved, usage.storeReserved, config)
    IN  IF accJs[jsaObj[1].account] = 0 THEN ErrAcctNotEnabled
        ELSE IF config.Name \in DOMAIN streams THEN ErrNameInUse
        ELSE IF lim.err # ErrNil THEN lim.err
        ELSE IF config.Template # "" /\
                ~checkTemplateOwnership(config.Template, config.Name)
        THEN ErrNotOwned
        ELSE IF ~storeOk THEN ErrStore
        ELSE ErrNil

\* The registry after AddStream returned nil.
AddStreamCfg(limits, config) ==
    checkLimits(limits, Cardinality(DOMAIN streams), usage.memReserved,
                usage.storeReserved, config).config

AddStreamReg(limits, config) ==
    Put(streams, config.Name, AddStreamCfg(limits, config))

\* The store directory after AddStream returned nil: a stream with file
\* storage has its directory and its metafile (section 4.4, step 3).
AddStreamDisk(limits, config) ==
    IF config.Storage = FileStorage
    THEN [disk EXCEPT !.streams =
              Put(@, config.Name, AddStreamCfg(limits, config)),
                      !.sdir = TRUE]
    ELSE disk

\* ------------------------------------------------------------------------
\* Initial states.
\* ------------------------------------------------------------------------

\* A constructed server, JetStream not enabled.
InitServer ==
    /\ standAlone \in BOOLEAN
    /\ globalOnly \in BOOLEAN
    /\ srvJs = 0
    /\ jsObj = [i \in 1..MaxJs |-> NoJs]
    /\ nJs = 0
    /\ jsaObj = [i \in 1..MaxJsa |-> NoJsa]
    /\ nJsa = 0
    /\ accJs = [a \in Accounts |-> 0]
    /\ th = [t \in Threads |-> Idle]
    /\ calls = 0
    /\ enabledOk = FALSE
    /\ held = [i \in 1..MaxJsa |-> [mem |-> 0, store |-> 0]]
    /\ hist = << >>
    /\ NoRegistries

CanCall(t) == th[t].pc = "idle" /\ calls < MaxCalls

\* The locals after the call returned e: a nested Account.EnableJetStream
\* returns into Server.EnableJetStream (jetstream.go:355).
Ret(r, e) ==
    IF r.nested THEN [r EXCEPT !.pc = "SE_global", !.err = e]
    ELSE [r EXCEPT !.pc = "ret", !.err = e]

Crash(r) == [r EXCEPT !.pc = "crashed", !.err = ErrPanic]

\* The goroutines after the panic of goroutine t with the locals r: the
\* process has ended, no goroutine takes another step.
Panic(t, r) ==
    [u \in Threads |->
        IF u = t THEN Crash(r) ELSE [th[u] EXCEPT !.pc = "crashed"]]

\* ------------------------------------------------------------------------
\* Account.EnableJetStream (jetstream.go:441-651).
\* ------------------------------------------------------------------------

\* jetstream.go:442-457: s.getJetStream() and the dynamic limits.
EnableEntry(r, a, limits) ==
    IF srvJs = 0 THEN Ret([r EXCEPT !.acc = a], ErrNotEnabled)
    ELSE [r EXCEPT !.pc = "AE_admit", !.acc = a, !.js = srvJs,
                   !.argNil = (limits = Nil),
                   !.lim = IF limits = Nil
                           THEN dynamicAccountLimits(jsObj[srvJs])
                           ELSE limits[1]]

AcctEnableCall(t, a, limits) ==
    /\ CanCall(t)
    /\ calls' = calls + 1
    /\ th' = [th EXCEPT ![t] = EnableEntry([Idle EXCEPT !.op = "AcctEnable"],
                                           a, limits)]
    /\ UNCHANGED << env, held, srvJs, jsObj, nJs, jsaObj, nJsa,
                    accJs, enabledOk >>

\* jetstream.go:459-473, under js.mu.
AcctEnableAdmit(t) ==
    LET r == th[t]
        j == r.js
        js == jsObj[j]
        e == sufficientResources(js, Ptr(r.lim))
        seen == [r EXCEPT !.admitted = TRUE, !.seenMem = js.memReserved,
                          !.seenStore = js.storeReserved,
                          !.seenIn = (js.accounts[r.acc] # 0)]
        id == nJsa + 1
    IN  /\ r.pc = "AE_admit"
        /\ IF e # ErrNil
           THEN /\ th' = [th EXCEPT ![t] = Ret(seen, e)]
                /\ UNCHANGED << jsObj, jsaObj, nJsa, held >>
           ELSE IF js.accounts[r.acc] # 0
           THEN /\ th' = [th EXCEPT ![t] = Ret(seen, ErrAcctAlreadyEnabled)]
                /\ UNCHANGED << jsObj, jsaObj, nJsa, held >>
           ELSE IF js.accNil
           THEN \* assignment to an entry of a nil map
                /\ th' = Panic(t, seen)
                /\ UNCHANGED << jsObj, jsaObj, nJsa, held >>
           ELSE /\ nJsa < MaxJsa
                /\ nJsa' = id
                /\ held' = [held EXCEPT ![id] = Amount(r.lim)]
                /\ jsaObj' = [jsaObj EXCEPT ![id] =
                       NewJsa(j, r.acc, r.lim,
                              Append(js.config.StoreDir, r.acc))]
                /\ jsObj' = [jsObj EXCEPT ![j] =
                       reserveResources(
                           [js EXCEPT !.accounts[r.acc] = id], Ptr(r.lim))]
                /\ th' = [th EXCEPT ![t] =
                       [seen EXCEPT !.pc = "AE_stamp", !.jsa = id,
                                    !.wrote = TRUE]]
        /\ UNCHANGED << env, srvJs, nJs, accJs, calls,
                        enabledOk >>

\* jetstream.go:475-478, under a.mu.
AcctEnableStamp(t) ==
    LET r == th[t]
    IN  /\ r.pc = "AE_stamp"
        /\ accJs' = [accJs EXCEPT ![r.acc] = r.jsa]
        /\ th' = [th EXCEPT ![t] = [r EXCEPT !.pc = "AE_setup"]]
        /\ UNCHANGED << env, held, srvJs, jsObj, nJs, jsaObj,
                        nJsa, calls, enabledOk >>

\* jetstream.go:480-505: the service imports and the streams directory;
\* both are calls to collaborators that succeed or fail.
AcctEnableSetup(t) ==
    LET r == th[t]
    IN  /\ r.pc = "AE_setup"
        /\ \E e \in {ErrNil, ErrImport, ErrStreamsDir} :
              th' = [th EXCEPT ![t] = Ret(r, e)]
        /\ UNCHANGED << env, held, srvJs, jsObj, nJs, jsaObj,
                        nJsa, accJs, calls, enabledOk >>

\* ------------------------------------------------------------------------
\* Account.UpdateJetStreamLimits (jetstream.go:702-747).
\* ------------------------------------------------------------------------

\* jetstream.go:703-722: getJetStream, lookupAccount, the dynamic limits.
AcctUpdateCall(t, a, limits) ==
    LET r == [Idle EXCEPT !.op = "AcctUpdate", !.acc = a]
    IN  /\ CanCall(t)
        /\ calls' = calls + 1
        /\ th' = [th EXCEPT ![t] =
              IF srvJs = 0 THEN Ret(r, ErrNotEnabled)
              ELSE IF jsObj[srvJs].accounts[a] = 0
              THEN Ret([r EXCEPT !.js = srvJs], ErrAcctNotEnabled)
              ELSE [r EXCEPT !.pc = "AU_diff", !.js = srvJs,
                             !.jsa = jsObj[srvJs].accounts[a],
                             !.argNil = (limits = Nil),
                             !.lim = IF limits = Nil
                                     THEN dynamicAccountLimits(jsObj[srvJs])
                                     ELSE limits[1]]]
        /\ UNCHANGED << env, held, srvJs, jsObj, nJs, jsaObj,
                        nJsa, accJs, enabledOk >>

\* jetstream.go:724-728, under jsa.mu.
AcctUpdateDiff(t) ==
    LET r == th[t]
    IN  /\ r.pc = "AU_diff"
        /\ th' = [th EXCEPT ![t] =
              [r EXCEPT !.pc = "AU_ledger",
                        !.dl = diffCheckedLimits(jsaObj[r.jsa].limits, r.lim),
                        !.old = jsaObj[r.jsa].limits]]
        /\ UNCHANGED << env, held, srvJs, jsObj, nJs, jsaObj,
                        nJsa, accJs, calls, enabledOk >>

\* jetstream.go:730-739, under js.mu.
AcctUpdateLedger(t) ==
    LET r == th[t]
        js == jsObj[r.js]
        e == sufficientResources(js, Ptr(r.dl))
        seen == [r EXCEPT !.admitted = TRUE, !.seenMem = js.memReserved,
                          !.seenStore = js.storeReserved]
    IN  /\ r.pc = "AU_ledger"
        /\ IF e # ErrNil
           THEN /\ th' = [th EXCEPT ![t] = Ret(seen, e)]
                /\ UNCHANGED << jsObj, held >>
           ELSE /\ jsObj' = [jsObj EXCEPT ![r.js] =
                      reserveResources(releaseResources(js, Ptr(r.old)),
                                       Ptr(r.lim))]
                /\ held' = [held EXCEPT ![r.jsa] =
                      [mem |-> @.mem - Amount(r.old).mem + Amount(r.lim).mem,
                       store |-> @.store - Amount(r.old).store
                                         + Amount(r.lim).store]]
                /\ th' = [th EXCEPT ![t] =
                      [seen EXCEPT !.pc = "AU_store", !.wrote = TRUE]]
        /\ UNCHANGED << env, srvJs, nJs, jsaObj, nJsa,
                        accJs, calls, enabledOk >>

\* jetstream.go:741-746, under jsa.mu.
AcctUpdateStore(t) ==
    LET r == th[t]
    IN  /\ r.pc = "AU_store"
        /\ jsaObj' = [jsaObj EXCEPT ![r.jsa].limits = r.lim]
        /\ th' = [th EXCEPT ![t] = Ret(r, ErrNil)]
        /\ UNCHANGED << env, held, srvJs, jsObj, nJs, nJsa,
                        accJs, calls, enabledOk >>

\* ------------------------------------------------------------------------
\* Account.DisableJetStream and jetStream.disableJetStream
\* (jetstream.go:775-812).
\* ------------------------------------------------------------------------

\* disableJetStream reads jsa.limits holding js.mu only, while
\* UpdateJetStreamLimits writes it holding jsa.mu only: the read races with
\* the write of every update that is about to store, and each field read is
\* the stored one or one being written.
RacyLimits(id) ==
    LET writers == {u \in Threads : th[u].pc = "AU_store" /\ th[u].jsa = id}
        cur == jsaObj[id].limits
    IN  {Limits(m, s, cur.MaxStreams, cur.MaxConsumers) :
            m \in {cur.MaxMemory} \cup {th[u].lim.MaxMemory : u \in writers},
            s \in {cur.MaxStore} \cup {th[u].lim.MaxStore : u \in writers}}

\* jetstream.go:776-779, under a.mu.
AcctDisableCall(t, a) ==
    /\ CanCall(t)
    /\ calls' = calls + 1
    /\ accJs' = [accJs EXCEPT ![a] = 0]
    /\ th' = [th EXCEPT ![t] =
          [Idle EXCEPT !.op = "AcctDisable", !.acc = a, !.pc = "AD_lookup"]]
    /\ UNCHANGED << env, held, srvJs, jsObj, nJs, jsaObj, nJsa,
                    enabledOk >>

\* jetstream.go:785-802: getJetStream, removeServiceImport, lookupAccount.
AcctDisableLookup(t) ==
    LET r == th[t]
    IN  /\ r.pc = "AD_lookup"
        /\ th' = [th EXCEPT ![t] =
              IF srvJs = 0 THEN Ret(r, ErrNotEnabled)
              ELSE IF jsObj[srvJs].accounts[r.acc] = 0
              THEN Ret([r EXCEPT !.js = srvJs], ErrAcctNotEnabled)
              ELSE [r EXCEPT !.pc = "AD_ledger", !.js = srvJs,
                             !.jsa = jsObj[srvJs].accounts[r.acc]]]
        /\ UNCHANGED << env, held, srvJs, jsObj, nJs, jsaObj,
                        nJsa, accJs, calls, enabledOk >>

\* jetstream.go:804-807, under js.mu: the jetStream after it, when the read
\* of jsa.limits returned lim.
disableLedger(js, a, lim) ==
    releaseResources([js EXCEPT !.accounts[a] = 0], Ptr(lim))

AcctDisableLedger(t) ==
    LET r == th[t]
    IN  /\ r.pc = "AD_ledger"
        /\ \E lim \in RacyLimits(r.jsa) :
              /\ jsObj' = [jsObj EXCEPT ![r.js] =
                    disableLedger(jsObj[r.js], jsaObj[r.jsa].account, lim)]
              /\ held' = [held EXCEPT ![r.jsa] =
                    [mem |-> @.mem - Amount(lim).mem,
                     store |-> @.store - Amount(lim).store]]
              /\ th' = [th EXCEPT ![t] =
                    [r EXCEPT !.pc = "AD_delete", !.wrote = TRUE,
                              !.exact = (held[r.jsa] = Amount(lim))]]
        /\ UNCHANGED << env, srvJs, nJs, jsaObj, nJsa,
                        accJs, calls, enabledOk >>

\* What no call of jsAccount.delete changes.
kept == << standAlone, globalOnly, hist, made, usage, tstore, disk, server >>

\* jsAccount.delete (jetstream.go:908-929) of the jsAccount id; the
\* registries of the model are those of jsAccount 1.  Under jsa.mu the
\* names of the templates are collected and jsa.templates is set to nil
\* (912-921); the streams are stopped (923-925) and leave the registry with
\* their consumers, their files stay (section 4.7); then
\* acc.DeleteStreamTemplate runs for each collected name (926-928): its
\* LookupStreamTemplate (1663-1678) fails when a.js is nil and when
\* jsa.templates is nil, and only a template it finds goes through Delete,
\* which closes the client.
jsaDelete(id) ==
    LET a == jsaObj[id].account
        cleared == [nil |-> TRUE,
                    map |-> [n \in DOMAIN templates.map |->
                                [templates.map[n] EXCEPT !.reg = FALSE]]]
        found(n) == /\ accJs[a] # 0
                    /\ ~cleared.nil
                    /\ cleared.map[n].reg
    IN  IF id # 1
        THEN [templates |-> templates, streams |-> streams,
              consumers |-> consumers]
        ELSE [templates |->
                  [cleared EXCEPT !.map =
                      [n \in DOMAIN templates.map |->
                          IF Registered(n) /\ found(n)
                          THEN [cleared.map[n] EXCEPT !.tc = FALSE,
                                                      !.sub = FALSE,
                                                      !.gone = TRUE]
                          ELSE cleared.map[n]]],
              streams |-> EmptyMap,
              consumers |-> EmptyMap]

\* jetstream.go:809-811: jsa.delete(), then return nil.
AcctDisableDelete(t) ==
    LET r == th[t]
    IN  /\ r.pc = "AD_delete"
        /\ th' = [th EXCEPT ![t] = Ret(r, ErrNil)]
        /\ templates' = jsaDelete(r.jsa).templates
        /\ streams' = jsaDelete(r.jsa).streams
        /\ consumers' = jsaDelete(r.jsa).consumers
        /\ UNCHANGED << kept, held, srvJs, jsObj, nJs, jsaObj,
                        nJsa, accJs, calls, enabledOk >>

\* ------------------------------------------------------------------------
\* Server.EnableJetStream (jetstream.go:232-361).
\* ------------------------------------------------------------------------

\* jetstream.go:243-255: the configuration the server stores.
normalizeConfig(config, sysMem) ==
    LET c == IF config = Nil \/ config[1].MaxMemory <= 0
                             \/ config[1].MaxStore <= 0
             THEN dynJetStreamConfig(
                      IF config # Nil THEN config[1].StoreDir ELSE << >>,
                      sysMem)
             ELSE config[1]
    IN  IF c.StoreDir = << >>
        THEN [c EXCEPT !.StoreDir = << TempDir, JetStreamStoreDir >>]
        ELSE c

\* A shutdownJetStream is between its first and its last critical section.
ShuttingDown == \E u \in Threads : th[u].pc = "SH_loop"

\* jetstream.go:233-258, under s.mu.
SrvEnableCallKeep(t, config, sysMem) ==
    LET r == [Idle EXCEPT !.op = "SrvEnable", !.afterOk = enabledOk,
                          !.noShut = ~ShuttingDown]
        id == nJs + 1
    IN  /\ CanCall(t)
        /\ calls' = calls + 1
        /\ IF ~standAlone
           THEN /\ th' = [th EXCEPT ![t] = Ret(r, ErrSingleServer)]
                /\ UNCHANGED << srvJs, jsObj, nJs >>
           ELSE /\ nJs < MaxJs
                /\ nJs' = id
                /\ srvJs' = id
                /\ jsObj' = [jsObj EXCEPT ![id] =
                       NewJs(normalizeConfig(config, sysMem))]
                /\ th' = [th EXCEPT ![t] =
                       [r EXCEPT !.pc = "SE_setup", !.wrote = TRUE]]
        /\ UNCHANGED << env, held, jsaObj, nJsa, accJs,
                        enabledOk >>

SrvEnableCall(t, config, sysMem) ==
    LET r == [Idle EXCEPT !.op = "SrvEnable", !.afterOk = enabledOk,
                          !.noShut = ~ShuttingDown]
        id == nJs + 1
    IN  /\ CanCall(t)
        /\ calls' = calls + 1
        /\ IF ~standAlone
           THEN /\ th' = [th EXCEPT ![t] = Ret(r, ErrSingleServer)]
                /\ UNCHANGED << srvJs, jsObj, nJs >>
           ELSE IF srvJs # 0
           THEN /\ th' = [th EXCEPT ![t] = Ret(r, ErrAlreadyEnabled)]
                /\ UNCHANGED << srvJs, jsObj, nJs >>
           ELSE /\ nJs < MaxJs
                /\ nJs' = id
                /\ srvJs' = id
                /\ jsObj' = [jsObj EXCEPT ![id] =
                       NewJs(normalizeConfig(config, sysMem))]
                /\ th' = [th EXCEPT ![t] =
                       [r EXCEPT !.pc = "SE_setup", !.wrote = TRUE]]
        /\ UNCHANGED << env, held, jsaObj, nJsa, accJs,
                        enabledOk >>

\* jetstream.go:260-360: the store directory, the system account, the
\* internal subscriptions and the service exports are collaborators that
\* succeed or fail; then the global account is enabled when the server has
\* no configured accounts.
SrvEnableSetup(t) ==
    LET r == th[t]
    IN  /\ r.pc = "SE_setup"
        /\ \E e \in {ErrNil, ErrStoreCreate, ErrStoreNotDir,
                     ErrStoreNotWritable, ErrSubscribe, ErrExport} :
              IF e # ErrNil
              THEN th' = [th EXCEPT ![t] = Ret(r, e)] /\ UNCHANGED enabledOk
              ELSE IF globalOnly
              THEN /\ th' = [th EXCEPT ![t] =
                          EnableEntry([r EXCEPT !.nested = TRUE], "G", Nil)]
                   /\ UNCHANGED enabledOk
              ELSE /\ th' = [th EXCEPT ![t] = Ret(r, ErrNil)]
                   /\ enabledOk' = (r.noShut /\ ~ShuttingDown)
        /\ UNCHANGED << env, held, srvJs, jsObj, nJs, jsaObj,
                        nJsa, accJs, calls >>

\* jetstream.go:355-360: the result of enabling the global account.
SrvEnableGlobalDone(t) ==
    LET r == th[t]
        e == IF r.err # ErrNil THEN ErrGlobal ELSE ErrNil
    IN  /\ r.pc = "SE_global"
        /\ th' = [th EXCEPT ![t] = [r EXCEPT !.pc = "ret", !.err = e,
                                             !.nested = FALSE]]
        /\ enabledOk' = IF e = ErrNil THEN (r.noShut /\ ~ShuttingDown)
                        ELSE enabledOk
        /\ UNCHANGED << env, held, srvJs, jsObj, nJs, jsaObj,
                        nJsa, accJs, calls >>

\* ------------------------------------------------------------------------
\* Server.shutdownJetStream (jetstream.go:372-395).
\* ------------------------------------------------------------------------

\* jetstream.go:373-384, under s.mu.
ShutdownCall(t) ==
    LET r == [Idle EXCEPT !.op = "Shutdown"]
    IN  /\ CanCall(t)
        /\ calls' = calls + 1
        /\ enabledOk' = FALSE
        /\ th' = [u \in Threads |->
              IF u # t
              THEN IF th[u].op = "SrvEnable"
                   THEN [th[u] EXCEPT !.noShut = FALSE] ELSE th[u]
              ELSE IF srvJs = 0 THEN Ret(r, ErrNil)
              ELSE [r EXCEPT !.pc = "SH_loop",
                             !.snap = {jsObj[srvJs].accounts[a] :
                                          a \in Accounts} \ {0}]]
        /\ UNCHANGED << env, held, srvJs, jsObj, nJs, jsaObj,
                        nJsa, accJs >>

\* jetstream.go:386-389: one iteration, jsa.flushState() and
\* s.js.disableJetStream(jsa) with its jsa.delete(); s.js is read without
\* s.mu.
ShutdownAccount(t) ==
    LET r == th[t]
    IN  /\ r.pc = "SH_loop"
        /\ r.snap # {}
        /\ \E id \in r.snap :
              IF srvJs = 0
              THEN /\ th' = Panic(t, r)
                   /\ UNCHANGED << jsObj, held, templates, streams,
                                   consumers >>
              ELSE \E lim \in RacyLimits(id) :
                   /\ jsObj' = [jsObj EXCEPT ![srvJs] =
                          disableLedger(jsObj[srvJs], jsaObj[id].account,
                                        lim)]
                   /\ held' = [held EXCEPT ![id] =
                          [mem |-> @.mem - Amount(lim).mem,
                           store |-> @.store - Amount(lim).store]]
                   /\ templates' = jsaDelete(id).templates
                   /\ streams' = jsaDelete(id).streams
                   /\ consumers' = jsaDelete(id).consumers
                   /\ th' = [th EXCEPT ![t] =
                          [r EXCEPT !.snap = @ \ {id}, !.wrote = TRUE,
                                    !.exact = @ /\ held[id] = Amount(lim)]]
        /\ UNCHANGED << kept, srvJs, nJs, jsaObj, nJsa,
                        accJs, calls, enabledOk >>

\* jetstream.go:391-394, under s.mu.
ShutdownClear(t) ==
    LET r == th[t]
    IN  /\ r.pc = "SH_loop"
        /\ r.snap = {}
        /\ IF srvJs = 0
           THEN /\ th' = Panic(t, r)
                /\ UNCHANGED << srvJs, jsObj >>
           ELSE /\ jsObj' = [jsObj EXCEPT ![srvJs].accNil = TRUE,
                                          ![srvJs].accounts =
                                              [a \in Accounts |-> 0]]
                /\ srvJs' = 0
                /\ th' = [th EXCEPT ![t] = Ret(r, ErrNil)]
        /\ UNCHANGED << env, held, nJs, jsaObj, nJsa, accJs,
                        calls, enabledOk >>

\* The caller takes the result; the goroutine is free for the next call.
Return(t) ==
    /\ th[t].pc = "ret"
    /\ th' = [th EXCEPT ![t] = Idle]
    /\ UNCHANGED << env, held, srvJs, jsObj, nJs, jsaObj, nJsa,
                    accJs, calls, enabledOk >>

\* ------------------------------------------------------------------------
\* The ledger: a stand-alone server with configured accounts on which
\* Server.EnableJetStream(c) has returned nil, and the account calls.
\* ------------------------------------------------------------------------
Init ==
    /\ standAlone = TRUE
    /\ globalOnly = FALSE
    /\ srvJs = 1
    /\ \E c \in ConfigArgs, m \in SysMemVals \ {0} :
          jsObj = [i \in 1..MaxJs |->
                      IF i = 1 THEN NewJs(normalizeConfig(c, m)) ELSE NoJs]
    /\ nJs = 1
    /\ jsaObj = [i \in 1..MaxJsa |-> NoJsa]
    /\ nJsa = 0
    /\ accJs = [a \in Accounts |-> 0]
    /\ th = [t \in Threads |-> Idle]
    /\ calls = 0
    /\ enabledOk = TRUE
    /\ held = [i \in 1..MaxJsa |-> [mem |-> 0, store |-> 0]]
    /\ hist = << >>
    /\ NoRegistries

AccountStep(t) ==
    \/ \E a \in Accounts, l \in LimitArgs : AcctEnableCall(t, a, l)
    \/ AcctEnableAdmit(t)
    \/ AcctEnableStamp(t)
    \/ AcctEnableSetup(t)
    \/ \E a \in Accounts, l \in {Nil, Ptr(Limits(-1, 40, -1, -1))} :
          AcctUpdateCall(t, a, l)
    \/ AcctUpdateDiff(t)
    \/ AcctUpdateLedger(t)
    \/ AcctUpdateStore(t)
    \/ \E a \in Accounts : AcctDisableCall(t, a)
    \/ AcctDisableLookup(t)
    \/ AcctDisableLedger(t)
    \/ AcctDisableDelete(t)
    \/ Return(t)

Next == \E t \in Threads : AccountStep(t)

Spec == Init /\ [][Next]_vars

\* ------------------------------------------------------------------------
\* The lifecycle: a constructed server, Server.EnableJetStream,
\* shutdownJetStream and the enabling of accounts.
\* ------------------------------------------------------------------------
ServerStep(t) ==
    \/ \E c \in ConfigArgs, m \in SysMemVals : SrvEnableCall(t, c, m)
    \/ SrvEnableSetup(t)
    \/ SrvEnableGlobalDone(t)
    \/ ShutdownCall(t)
    \/ ShutdownAccount(t)
    \/ ShutdownClear(t)
    \/ \E a \in Accounts, l \in {Nil, Ptr(Limits(40, 40, 2, 2))} :
          AcctEnableCall(t, a, l)
    \/ AcctEnableAdmit(t)
    \/ AcctEnableStamp(t)
    \/ AcctEnableSetup(t)
    \/ Return(t)

NextServer == \E t \in Threads : ServerStep(t)

SpecServer == InitServer /\ [][NextServer]_vars

\* ------------------------------------------------------------------------
\* Concurrent updates: a server on which accounts are enabled, and calls of
\* Account.UpdateJetStreamLimits only.  hist[1] is the ledger at the start,
\* the rest of hist are the calls in the order in which they returned.
\* ------------------------------------------------------------------------
Resolve(cfg, limits) ==
    IF limits = Nil THEN Limits(cfg.MaxMemory, cfg.MaxStore, -1, -1)
    ELSE limits[1]

Snapshot == [js |-> jsObj[1], limits |-> [i \in 1..MaxJsa |-> jsaObj[i].limits]]

InitUpdate ==
    /\ standAlone = TRUE
    /\ globalOnly = FALSE
    /\ srvJs = 1
    /\ nJs = 1
    /\ nJsa = 2
    /\ \E c \in ConfigArgs, m \in SysMemVals \ {0}, lg \in LimitArgs,
          lb \in LimitArgs :
          LET cfg == normalizeConfig(c, m)
              g == Resolve(cfg, lg)
              b == Resolve(cfg, lb)
              js1 == reserveResources(
                         [NewJs(cfg) EXCEPT !.accounts["G"] = 1], Ptr(g))
              js2 == reserveResources(
                         [js1 EXCEPT !.accounts["B"] = 2], Ptr(b))
          IN  /\ sufficientResources(NewJs(cfg), Ptr(g)) = ErrNil
              /\ sufficientResources(js1, Ptr(b)) = ErrNil
              /\ jsObj = [i \in 1..MaxJs |-> IF i = 1 THEN js2 ELSE NoJs]
              /\ jsaObj = [i \in 1..MaxJsa |->
                    IF i = 1
                    THEN NewJsa(1, "G", g, Append(cfg.StoreDir, "G"))
                    ELSE IF i = 2
                    THEN NewJsa(1, "B", b, Append(cfg.StoreDir, "B"))
                    ELSE NoJsa]
              /\ held = [i \in 1..MaxJsa |->
                    IF i = 1 THEN Amount(g)
                    ELSE IF i = 2 THEN Amount(b)
                    ELSE [mem |-> 0, store |-> 0]]
              /\ hist = << [js |-> js2,
                            limits |-> [i \in 1..MaxJsa |->
                                IF i = 1 THEN g
                                ELSE IF i = 2 THEN b ELSE ZeroLimits]] >>
    /\ accJs = [a \in Accounts |-> IF a = "G" THEN 1 ELSE 2]
    /\ th = [t \in Threads |-> Idle]
    /\ calls = 0
    /\ enabledOk = TRUE
    /\ NoRegistries

\* The call of goroutine t has returned: it is recorded.
ReturnLogged(t) ==
    /\ th[t].pc = "ret"
    /\ hist' = Append(hist, [acc |-> th[t].acc, lim |-> th[t].lim,
                             err |-> th[t].err])
    /\ th' = [th EXCEPT ![t] = Idle]
    /\ UNCHANGED << standAlone, globalOnly, held, srvJs, jsObj, nJs, jsaObj,
                    nJsa, accJs, calls, enabledOk, streams, templates,
                    made, usage, tstore, disk, consumers, server >>

UpdateStep(t) ==
    \/ \E a \in Accounts, l \in LimitArgs : AcctUpdateCall(t, a, l)
    \/ AcctUpdateDiff(t)
    \/ AcctUpdateLedger(t)
    \/ AcctUpdateStore(t)
    \/ ReturnLogged(t)

NextUpdate == \E t \in Threads : UpdateStep(t)

SpecUpdate == InitUpdate /\ [][NextUpdate]_vars

\* ------------------------------------------------------------------------
\* The template dispatcher (jetstream.go:1615-1660) on the account "G",
\* whose jsAccount is object 1.
\* ------------------------------------------------------------------------
TemplateLimits == jsaObj[1].limits

\* jetstream.go:1616-1629, under jsa.mu: the registry membership check.
DispatchCheckSkip(t, tn, subject) ==
    LET cn == CanonicalName(subject)
        r == [Idle EXCEPT !.op = "Deliver", !.tn = tn, !.subj = subject,
                          !.cn = cn, !.acc = jsaObj[1].account,
                          !.sawReg = (cn \in DOMAIN streams)]
    IN  /\ th[t].pc = "idle"
        /\ calls < MaxDeliveries
        /\ tn \in DOMAIN templates.map
        /\ templates.map[tn].sub
        /\ calls' = calls + 1
        /\ th' = [th EXCEPT ![t] = [r EXCEPT !.pc = "D_tmpl"]]
        /\ UNCHANGED << ledger, stores, disk, streams, templates, made >>

DispatchCheck(t, tn, subject) ==
    LET cn == CanonicalName(subject)
        r == [Idle EXCEPT !.op = "Deliver", !.tn = tn, !.subj = subject,
                          !.cn = cn, !.acc = jsaObj[1].account,
                          !.sawReg = (cn \in DOMAIN streams)]
    IN  /\ th[t].pc = "idle"
        /\ calls < MaxDeliveries
        /\ tn \in DOMAIN templates.map
        /\ templates.map[tn].sub
        /\ calls' = calls + 1
        /\ th' = [th EXCEPT ![t] =
              IF cn \in DOMAIN streams THEN Ret(r, ErrNil)
              ELSE [r EXCEPT !.pc = "D_tmpl"]]
        /\ UNCHANGED << ledger, stores, disk, streams, templates, made >>

\* jetstream.go:1631-1645, under t.mu: c := t.tc (flag: c is not nil), the
\* cap, and the append.
DispatchAppend(t) ==
    LET r == th[t]
        tm == templates.map[r.tn]
        atLimit == Len(tm.streams) >= tm.MaxStreams
    IN  /\ r.pc = "D_tmpl"
        /\ IF atLimit
           THEN /\ th' = IF tm.tc
                             THEN [th EXCEPT ![t] =
                                      Ret([r EXCEPT !.atLimit = TRUE],
                                          ErrNil)]
                             ELSE Panic(t, r)
                /\ UNCHANGED templates
           ELSE /\ templates' = [templates EXCEPT !.map[r.tn].streams =
                                     Append(@, r.cn)]
                /\ th' = [th EXCEPT ![t] =
                              [r EXCEPT !.pc = "D_add", !.flag = tm.tc]]
        /\ UNCHANGED << ledger, stores, disk, streams, made, calls >>

\* The config of the new stream, named as the subject is spelled.
DispatchConfigRaw(tm, cn, subject) ==
    [tm.Config EXCEPT !.Template = tm.Name, !.Name = subject,
                      !.Subjects = << subject >>]

\* jetstream.go:1634-1635, 1649-1650: the config of the new stream.
DispatchConfig(tm, cn, subject) ==
    [tm.Config EXCEPT !.Template = tm.Name, !.Name = cn,
                      !.Subjects = << subject >>]

\* Account.validateStreams (jetstream.go:1681-1691): the list it leaves.
RECURSIVE validateStreams(_)
validateStreams(names) ==
    IF names = << >> THEN << >>
    ELSE IF LookupStream(Head(names)) = ErrNil
         THEN << Head(names) >> \o validateStreams(Tail(names))
         ELSE validateStreams(Tail(names))

\* jetstream.go:1651-1659: acc.AddStream; on an error validateStreams, else
\* the message is handed to the new stream.
DispatchAdd(t) ==
    LET r == th[t]
        tm == templates.map[r.tn]
        cfg == DispatchConfig(tm, r.cn, r.subj)
    IN  /\ r.pc = "D_add"
        /\ \E storeOk \in BOOLEAN :
              LET e == AddStreamErr(TemplateLimits, cfg, storeOk)
              IN  IF e = ErrNil
                  THEN /\ streams' = AddStreamReg(TemplateLimits, cfg)
                       /\ disk' = AddStreamDisk(TemplateLimits, cfg)
                       /\ made' = [made EXCEPT ![r.cn] = @ + 1]
                       /\ th' = [th EXCEPT ![t] =
                              Ret([r EXCEPT !.did = TRUE, !.cfg = cfg],
                                  ErrNil)]
                  ELSE /\ th' = [th EXCEPT ![t] =
                              [r EXCEPT !.pc = "D_validate", !.err = e,
                                        !.cfg = cfg]]
                       /\ UNCHANGED << streams, made, disk >>
        /\ UNCHANGED << ledger, stores, templates, calls >>

\* jetstream.go:1653-1655: validateStreams under t.mu, then the warning.
DispatchValidate(t) ==
    LET r == th[t]
        tm == templates.map[r.tn]
    IN  /\ r.pc = "D_validate"
        /\ templates' = [templates EXCEPT !.map[r.tn].streams =
                             validateStreams(@)]
        /\ th' = IF r.flag THEN [th EXCEPT ![t] = Ret(r, r.err)]
                 ELSE Panic(t, r)
        /\ UNCHANGED << ledger, stores, disk, streams, made, calls >>

\* Server.jsCreateStreamRequest (jetstream.go:1128-1152) past its checks:
\* Account.AddStream with the config of the request.
ApiAddStream(t, name, template) ==
    LET cfg == StreamConfig(name, << name >>, MemoryStorage, template)
        r == [Idle EXCEPT !.op = "AddStream", !.cn = name, !.tn = template,
                          !.acc = jsaObj[1].account]
    IN  /\ th[t].pc = "idle"
        /\ calls < MaxDeliveries
        /\ calls' = calls + 1
        /\ \E storeOk \in BOOLEAN :
              LET e == AddStreamErr(TemplateLimits, cfg, storeOk)
              IN  IF e = ErrNil
                  THEN /\ streams' = AddStreamReg(TemplateLimits, cfg)
                       /\ disk' = AddStreamDisk(TemplateLimits, cfg)
                       /\ made' = [made EXCEPT ![name] = @ + 1]
                       /\ th' = [th EXCEPT ![t] =
                              Ret([r EXCEPT !.did = TRUE], ErrNil)]
                  ELSE /\ th' = [th EXCEPT ![t] = Ret(r, e)]
                       /\ UNCHANGED << streams, made, disk >>
        /\ UNCHANGED << ledger, stores, templates >>

ReturnTemplate(t) ==
    /\ th[t].pc = "ret"
    /\ th' = [th EXCEPT ![t] = Idle]
    /\ UNCHANGED << ledger, stores, disk, streams, templates, made, calls >>

\* The account "G" is enabled and Account.AddStreamTemplate has registered
\* the template "T" (jetstream.go:1545-1573: its config is named "_").
MaxStreamsArgs == {0, 1, 2}

\* The server is enabled and the account "G", jsAccount 1, has been enabled
\* with one of the limits ls.
InitAccountG(ls) ==
    /\ standAlone = TRUE
    /\ globalOnly = FALSE
    /\ srvJs = 1
    /\ nJs = 1
    /\ nJsa = 1
    /\ \E c \in ConfigArgs \ {Nil}, lg \in ls :
          LET cfg == normalizeConfig(c, 0)
              g == Resolve(cfg, lg)
              js1 == reserveResources(
                         [NewJs(cfg) EXCEPT !.accounts["G"] = 1], Ptr(g))
          IN  /\ sufficientResources(NewJs(cfg), Ptr(g)) = ErrNil
              /\ jsObj = [i \in 1..MaxJs |-> IF i = 1 THEN js1 ELSE NoJs]
              /\ jsaObj = [i \in 1..MaxJsa |->
                    IF i = 1
                    THEN NewJsa(1, "G", g, Append(cfg.StoreDir, "G"))
                    ELSE NoJsa]
              /\ held = [i \in 1..MaxJsa |->
                    IF i = 1 THEN Amount(g) ELSE [mem |-> 0, store |-> 0]]
    /\ accJs = [a \in Accounts |-> IF a = "G" THEN 1 ELSE 0]
    /\ th = [t \in Threads |-> Idle]
    /\ calls = 0
    /\ enabledOk = TRUE
    /\ hist = << >>
    /\ server = NoServer
    /\ made = [n \in {CanonicalName(x) : x \in Subjects} |-> 0]

\* What the template store keeps of a template: its StreamTemplateConfig,
\* the name of the prototype blank again (section 4.4).
TemplateRec(tm) ==
    [Name |-> tm.Name, MaxStreams |-> tm.MaxStreams,
     Config |-> [tm.Config EXCEPT !.Name = << >>]]

\* The kind of store newTemplateFileStore / newTemplateMemStore make for
\* a first template with this prototype (jetstream.go:1563-1567).
StoreKind(config) == IF config.Storage = FileStorage THEN "file" ELSE "mem"

\* The registries after Account.AddStreamTemplate has returned nil for the
\* account's first template tm.
FirstTemplate(tm) ==
    /\ templates = [nil |-> FALSE, map |-> Put(EmptyMap, tm.Name, tm)]
    /\ tstore = [kind |-> StoreKind(tm.Config),
                 mem |-> IF StoreKind(tm.Config) = "mem"
                         THEN Put(EmptyMap, tm.Name, TemplateRec(tm))
                         ELSE EmptyMap]
    /\ disk = [EmptyDisk EXCEPT !.templates =
                   IF StoreKind(tm.Config) = "file"
                   THEN Put(EmptyMap, tm.Name, TemplateRec(tm))
                   ELSE EmptyMap]

InitTemplate ==
    /\ InitAccountG(LimitArgs)
    /\ streams = EmptyMap
    /\ usage = ZeroUsage
    /\ consumers = EmptyMap
    /\ \E max \in MaxStreamsArgs, st \in {MemoryStorage, FileStorage} :
          FirstTemplate(NewTemplate("T", max,
                            StreamConfig(<< "_" >>, << << ">" >> >>, st,
                                         "")))

TemplateStep(t) ==
    \/ \E s \in Subjects : DispatchCheck(t, "T", s)
    \/ DispatchAppend(t)
    \/ DispatchAdd(t)
    \/ DispatchValidate(t)
    \/ \E s \in Subjects, tn \in {"", "T"} :
          ApiAddStream(t, CanonicalName(s), tn)
    \/ ReturnTemplate(t)

NextTemplate == \E t \in Threads : TemplateStep(t)

SpecTemplate == InitTemplate /\ [][NextTemplate]_vars

\* ------------------------------------------------------------------------
\* StreamTemplate.Delete (jetstream.go:1693-1749), called through
\* Account.DeleteStreamTemplate, while the dispatcher runs.
\* ------------------------------------------------------------------------

\* A map without the entry k.
Drop(f, k) == [x \in (DOMAIN f) \ {k} |-> f[x]]

\* Account.DeleteStreamTemplate (jetstream.go:1751-1757) with
\* LookupStreamTemplate (jetstream.go:1663-1678), under jsa.mu.
DeleteStreamTemplate(t, tn) ==
    LET r == [Idle EXCEPT !.op = "DeleteTemplate", !.tn = tn,
                          !.acc = jsaObj[1].account]
    IN  /\ th[t].pc = "idle"
        /\ calls < MaxDeliveries
        /\ tn \in DOMAIN templates.map
        /\ calls' = calls + 1
        /\ th' = [th EXCEPT ![t] =
              IF Registered(tn) THEN [r EXCEPT !.pc = "TD_start"]
              ELSE Ret(r, ErrNoTemplate)]
        /\ UNCHANGED << ledger, stores, disk, streams, templates, made >>

\* jetstream.go:1698-1707, under t.mu: c := t.tc; t.tc = nil (flag: c is
\* not nil, the deferred function will close it).
TemplateDeleteStart(t) ==
    LET r == th[t]
    IN  /\ r.pc = "TD_start"
        /\ templates' = [templates EXCEPT !.map[r.tn].tc = FALSE]
        /\ th' = [th EXCEPT ![t] =
              [r EXCEPT !.pc = "TD_unreg",
                        !.flag = templates.map[r.tn].tc]]
        /\ UNCHANGED << ledger, stores, disk, streams, made, calls >>

\* The template map after Delete has returned e to goroutine t: the
\* deferred c.closeConnection (jetstream.go:1702-1706) ends the
\* subscriptions.
DeleteReturns(t, e) ==
    [templates EXCEPT !.map[th[t].tn] =
        [@ EXCEPT !.sub = IF th[t].flag THEN FALSE ELSE @,
                  !.gone = (e = ErrNil /\ th[t].did)]]

\* The locals after Delete has returned e: Account.AddStreamTemplate, when
\* it called Delete, returns the error that made it call Delete, kept in
\* reply (jetstream.go:1581-1584, 1602-1606).
DeleteRet(r, e) ==
    Ret(r, IF r.op = "AddTemplate" THEN r.reply ELSE e)

\* jetstream.go:1713-1724, under jsa.mu: the template leaves jsa.templates.
TemplateDeleteUnregister(t) ==
    LET r == th[t]
    IN  /\ r.pc = "TD_unreg"
        /\ IF ~Registered(r.tn)
           THEN /\ templates' = DeleteReturns(t, ErrNoTemplate)
                /\ th' = [th EXCEPT ![t] = DeleteRet(r, ErrNoTemplate)]
           ELSE /\ templates' = [templates EXCEPT !.map[r.tn].reg = FALSE]
                /\ th' = [th EXCEPT ![t] =
                       [r EXCEPT !.pc = "TD_collect", !.did = TRUE]]
        /\ UNCHANGED << ledger, stores, disk, streams, made, calls >>

\* jetstream.go:1727-1734, under t.mu: the streams of the list that
\* resolve.
TemplateDeleteCollect(t) ==
    LET r == th[t]
        found == validateStreams(templates.map[r.tn].streams)
    IN  /\ r.pc = "TD_collect"
        /\ th' = [th EXCEPT ![t] =
              [r EXCEPT !.pc = "TD_store", !.list = found,
                        !.want = Len(found)]]
        /\ UNCHANGED << ledger, stores, disk, streams, templates, made,
                        calls >>

\* jetstream.go:1736-1740: jsa.store.Delete(t), which may fail.
TemplateDeleteStore(t) ==
    LET r == th[t]
    IN  /\ r.pc = "TD_store"
        /\ \E ok \in BOOLEAN :
              IF tstore.kind # "nil" /\ ~ok
              THEN /\ templates' = DeleteReturns(t, ErrStoreDelete)
                   /\ th' = [th EXCEPT ![t] =
                          DeleteRet([r EXCEPT !.last = ErrStoreDelete],
                                    ErrStoreDelete)]
                   /\ UNCHANGED << tstore, disk >>
              ELSE /\ tstore' = IF tstore.kind = "mem"
                                THEN [tstore EXCEPT !.mem = Drop(@, r.tn)]
                                ELSE tstore
                   /\ disk' = IF tstore.kind = "file"
                              THEN [disk EXCEPT !.templates = Drop(@, r.tn)]
                              ELSE disk
                   /\ th' = [th EXCEPT ![t] = [r EXCEPT !.pc = "TD_streams"]]
                   /\ UNCHANGED templates
        /\ UNCHANGED << ledger, usage, consumers, streams, made, calls >>

\* jetstream.go:1742-1748: mset.Delete() of the next collected stream, or
\* the return of lastErr.  Stream.Delete as the specification describes it
\* (section 3): the stream leaves the registry and its store, or the call
\* fails and the stream stays.
TemplateDeleteStream(t) ==
    LET r == th[t]
    IN  /\ r.pc = "TD_streams"
        /\ IF r.list = << >>
           THEN /\ templates' = DeleteReturns(t, r.err)
                /\ th' = [th EXCEPT ![t] = DeleteRet(r, r.err)]
                /\ UNCHANGED << streams, disk, consumers >>
           ELSE \E ok \in BOOLEAN :
                   LET n == Head(r.list)
                       e == IF ok THEN r.err ELSE ErrStreamDelete
                   IN  /\ streams' = IF ok /\ n \in DOMAIN streams
                                      THEN Drop(streams, n) ELSE streams
                       /\ disk' = IF ok /\ n \in DOMAIN disk.streams
                                   THEN [disk EXCEPT
                                            !.streams = Drop(@, n),
                                            !.consumers = Drop(@, n)]
                                   ELSE disk
                       /\ consumers' = IF ok THEN Drop(consumers, n)
                                        ELSE consumers
                       /\ th' = [th EXCEPT ![t] =
                              [r EXCEPT !.list = Tail(@), !.err = e,
                                        !.last = e, !.seenN = @ + 1]]
                       /\ UNCHANGED templates
        /\ UNCHANGED << ledger, usage, tstore, made, calls >>

DeleteStep(t) ==
    \/ \E s \in Subjects : DispatchCheck(t, "T", s)
    \/ DispatchAppend(t)
    \/ DispatchAdd(t)
    \/ DispatchValidate(t)
    \/ DeleteStreamTemplate(t, "T")
    \/ TemplateDeleteStart(t)
    \/ TemplateDeleteUnregister(t)
    \/ TemplateDeleteCollect(t)
    \/ TemplateDeleteStore(t)
    \/ TemplateDeleteStream(t)
    \/ ReturnTemplate(t)

NextDelete == \E t \in Threads : DeleteStep(t)

SpecDelete == InitTemplate /\ [][NextDelete]_vars

\* ------------------------------------------------------------------------
\* The life of the templates of the account "G": Account.AddStreamTemplate
\* (jetstream.go:1535-1586), deliveries, deletes, updates of the account's
\* limits, and a restart of the server with the recovery of
\* Account.EnableJetStream (jetstream.go:507-605).
\* ------------------------------------------------------------------------

\* The templates and the streams a store directory can hold, in the order
\* of ioutil.ReadDir.
TemplateOrder == << "T", "U" >>
StreamOrder == << << "a", "_", "b" >>, << "c" >> >>

\* The subjects of the prototype of each template.
ProtoSubjects(tn) == IF tn = "T" THEN << << ">" >> >> ELSE << << "u" >> >>

\* No goroutine is inside a call on a template of this name.
Unused(tn) == \A u \in Threads : th[u].pc = "idle" \/ th[u].tn # tn

\* jsa.templates and jsa.store after jetstream.go:1559-1573 have inserted
\* the template tm.
Inserted(tm) ==
    [templates |-> [nil |-> FALSE, map |-> Put(templates.map, tm.Name, tm)],
     tstore |-> IF templates.nil
                THEN [kind |-> StoreKind(tm.Config), mem |-> EmptyMap]
                ELSE tstore]

\* jetstream.go:1545-1573: the template object with its internal client
\* (flag: the call has made a client, 1554), and under jsa.mu its insertion
\* into jsa.templates (admitted); the first template of the account makes
\* jsa.store.  A template of the same name ends the call with the client
\* it made still open.
AddTemplateRegister(t, tn, max, st) ==
    LET r == [Idle EXCEPT !.op = "AddTemplate", !.tn = tn, !.st = st,
                          !.acc = jsaObj[1].account, !.flag = TRUE]
        tm == [NewTemplate(tn, max,
                   StreamConfig(<< "_" >>, ProtoSubjects(tn), st, ""))
                 EXCEPT !.sub = FALSE]
    IN  /\ th[t].pc = "idle"
        /\ calls < MaxDeliveries
        /\ Unused(tn)
        /\ calls' = calls + 1
        /\ IF Registered(tn)
           THEN /\ th' = [th EXCEPT ![t] = Ret(r, ErrTemplateExists)]
                /\ UNCHANGED << templates, tstore >>
           ELSE /\ templates' = Inserted(tm).templates
                /\ tstore' = Inserted(tm).tstore
                /\ th' = [th EXCEPT ![t] =
                       [r EXCEPT !.pc = "AT_store", !.admitted = TRUE]]
        /\ UNCHANGED << ledger, usage, consumers, disk, streams, made >>

\* The store with the record of the template tm, as jsa.store.Store(t)
\* leaves it.
Stored(tm) ==
    [tstore |-> IF tstore.kind = "mem"
                THEN [tstore EXCEPT !.mem = Put(@, tm.Name, TemplateRec(tm))]
                ELSE tstore,
     disk |-> IF tstore.kind = "file"
              THEN [disk EXCEPT !.templates =
                        Put(@, tm.Name, TemplateRec(tm))]
              ELSE disk]

\* jetstream.go:1578-1585 with createTemplateSubscriptions (1588-1613):
\* events is c.srv.eventsEnabled(), subOk whether every c.processSub
\* succeeds.  Without a system account the call returns ErrNoSysAccount and
\* leaves the template as it is; a failed subscription calls
\* c.acc.DeleteStreamTemplate (1604); then jsa.store.Store(t), which may
\* fail, and on its failure t.Delete().
AddTemplateFinish(t, events, subOk) ==
    LET r == th[t]
        tm == templates.map[r.tn]
    IN  /\ r.pc = "AT_store"
        /\ IF ~tm.tc
           THEN /\ th' = [th EXCEPT ![t] = Ret(r, "template not enabled")]
                /\ UNCHANGED << templates, tstore, disk >>
           ELSE IF ~events
           THEN /\ th' = [th EXCEPT ![t] = Ret(r, ErrNoSysAccount)]
                /\ UNCHANGED << templates, tstore, disk >>
           ELSE IF ~subOk
           THEN /\ th' = [th EXCEPT ![t] =
                       IF Registered(r.tn)
                       THEN [r EXCEPT !.pc = "TD_start",
                                      !.reply = ErrProcessSub]
                       ELSE Ret(r, ErrProcessSub)]
                /\ UNCHANGED << templates, tstore, disk >>
           ELSE \E ok \in BOOLEAN :
                   /\ templates' = [templates EXCEPT !.map[r.tn].sub = TRUE]
                   /\ IF ok
                      THEN /\ tstore' = Stored(tm).tstore
                           /\ disk' = Stored(tm).disk
                           /\ th' = [th EXCEPT ![t] = Ret(r, ErrNil)]
                      ELSE /\ th' = [th EXCEPT ![t] =
                                  [r EXCEPT !.pc = "TD_start",
                                            !.reply = ErrStoreTemplate]]
                           /\ UNCHANGED << tstore, disk >>
        /\ UNCHANGED << ledger, usage, consumers, streams, made, calls >>

\* Account.AddStreamTemplate past its registration on a server whose
\* system account is set (jetstream.go:279-281) and whose subscriptions
\* succeed.
AddTemplateStore(t) == AddTemplateFinish(t, TRUE, TRUE)

\* Account.AddStreamTemplate (jetstream.go:1535-1586) from its first line
\* on the enabled account: pname is the name of the prototype the caller
\* gave (1540-1542), cfgOk whether checkStreamCfg accepts the prototype
\* (1547-1550).
AddStreamTemplate(t, tn, pname, cfgOk, max, st) ==
    LET r == [Idle EXCEPT !.op = "AddTemplate", !.tn = tn, !.st = st,
                          !.acc = jsaObj[1].account]
    IN  IF pname # << >> \/ ~cfgOk
        THEN /\ th[t].pc = "idle"
             /\ calls < MaxDeliveries
             /\ Unused(tn)
             /\ calls' = calls + 1
             /\ th' = [th EXCEPT ![t] =
                    Ret(r, IF pname # << >> THEN ErrTemplateNamed
                           ELSE ErrStreamConfig)]
             /\ UNCHANGED << ledger, stores, disk, streams, templates,
                             made >>
        ELSE AddTemplateRegister(t, tn, max, st)

\* Account.AddStreamTemplate and Account.DeleteStreamTemplate on the
\* enabled account "G" without templates, called one after the other.
InitAddTemplate ==
    /\ InitAccountG({Ptr(Limits(40, 40, 2, 2))})
    /\ NoRegistries

AddTemplateStep(t) ==
    \/ \E tn \in {"T", "U"}, pname \in {<< >>, << "x" >>},
          cfgOk \in BOOLEAN, max \in {1, 2},
          st \in {MemoryStorage, FileStorage} :
          AddStreamTemplate(t, tn, pname, cfgOk, max, st)
    \/ \E events \in BOOLEAN, subOk \in BOOLEAN :
          AddTemplateFinish(t, events, subOk)
    \/ \E tn \in {"T", "U"} : DeleteStreamTemplate(t, tn)
    \/ TemplateDeleteStart(t)
    \/ TemplateDeleteUnregister(t)
    \/ TemplateDeleteCollect(t)
    \/ TemplateDeleteStore(t)
    \/ TemplateDeleteStream(t)
    \/ ReturnTemplate(t)

NextAddTemplate == \E t \in {"t1"} : AddTemplateStep(t)

SpecAddTemplate == InitAddTemplate /\ [][NextAddTemplate]_vars

\* How the files of an entry of the store directory can be damaged: the
\* metafile is missing or unreadable, the checksum file is missing, is
\* unreadable or does not match the metafile, the metafile is not JSON, or
\* the configuration is one whose re-creation returns an error.
Damage == {"nometa", "nosum", "sumerr", "badsum", "badjson", "refused"}

\* The entries of the store directory: a template, a stream, a consumer
\* of a stream.
TemplateEntry(tn) == << "template", << tn >>, << >> >>
StreamEntry(n) == << "stream", n, << >> >>
ConsumerEntry(n, c) == << "consumer", n, c >>

DamageOf(entry) ==
    IF entry \in DOMAIN disk.damage THEN disk.damage[entry] ELSE "ok"

TemplateDamage(tn) == DamageOf(TemplateEntry(tn))
StreamDamage(n) == DamageOf(StreamEntry(n))
ConsumerDamage(n, c) == DamageOf(ConsumerEntry(n, c))

\* The server stops and starts again: what the account held in memory is
\* gone, the store directory is as it was, and Account.EnableJetStream has
\* come to its look at the directory (jetstream.go:492-495).
Restart(t) ==
    /\ \A u \in Threads : th[u].pc = "idle"
    /\ calls <= MaxDeliveries
    /\ calls' = calls + 1
    /\ streams' = EmptyMap
    /\ templates' = [nil |-> TRUE, map |-> EmptyMap]
    /\ tstore' = NoStore
    /\ usage' = ZeroUsage
    /\ consumers' = EmptyMap
    /\ th' = [th EXCEPT ![t] =
          [Idle EXCEPT !.op = "Recover", !.pc = "E_migrate",
                       !.acc = jsaObj[1].account]]
    /\ UNCHANGED << ledger, disk, made >>

\* jetstream.go:494-517: a store directory without its "streams"
\* directory is upgraded in place, every entry of it renamed into the new
\* "streams" directory (MkdirAll failing returns the error); then the
\* recovery begins with the templates.
EnableMigrate(t) ==
    LET r == th[t]
        next(d) == [r EXCEPT !.pc = "R_templates",
                             !.list = SelectSeq(TemplateOrder,
                                 LAMBDA x : x \in DOMAIN d.templates)]
        moved == [disk EXCEPT !.sdir = TRUE, !.streams = disk.legacy,
                              !.legacy = EmptyMap, !.templates = EmptyMap]
    IN  /\ r.pc = "E_migrate"
        /\ IF disk.sdir
           THEN /\ th' = [th EXCEPT ![t] = next(disk)]
                /\ UNCHANGED disk
           ELSE \E ok \in BOOLEAN :
                   IF ok
                   THEN /\ disk' = moved
                        /\ th' = [th EXCEPT ![t] = next(moved)]
                   ELSE /\ th' = [th EXCEPT ![t] = Ret(r, ErrStreamsDir)]
                        /\ UNCHANGED disk
        /\ UNCHANGED << ledger, stores, streams, templates, made, calls >>

\* The scan of a directory ends at its first damaged entry.
RestStop(list, how) == IF how # "ok" THEN << >> ELSE Tail(list)

\* What of a directory is left to scan once its first entry, damaged in
\* the way how or not, was dealt with: every failure is a "continue"
\* (jetstream.go:519-553, 560-605).
Rest(list, how) == Tail(list)

\* jetstream.go:519-553: the next template of the directory, its prototype
\* named blank, goes through Account.AddStreamTemplate (an unreadable
\* metafile, a missing, unreadable or mismatching checksum, a metafile
\* that is not JSON or an error of AddStreamTemplate skips it); after the
\* last one the streams follow (jetstream.go:556).
RecoverTemplate(t) ==
    LET r == th[t]
    IN  /\ r.pc = "R_templates"
        /\ IF r.list = << >>
           THEN /\ th' = [th EXCEPT ![t] =
                       [r EXCEPT !.pc = "R_streams",
                                 !.list = SelectSeq(StreamOrder,
                                     LAMBDA x : x \in DOMAIN disk.streams)]]
                /\ UNCHANGED << templates, tstore, disk >>
           ELSE LET tn == Head(r.list)
                    how == TemplateDamage(tn)
                    rec == disk.templates[tn]
                    tm == NewTemplate(rec.Name, rec.MaxStreams,
                              [rec.Config EXCEPT !.Name = << "_" >>])
                IN  /\ th' = [th EXCEPT ![t] =
                           [r EXCEPT !.list = Rest(@, how)]]
                    /\ IF \/ tn \notin DOMAIN disk.templates
                          \/ how # "ok"
                          \/ Registered(tn) \/ ~Unused(tn)
                       THEN UNCHANGED << templates, tstore, disk >>
                       ELSE /\ templates' = Inserted(tm).templates
                            /\ tstore' = Inserted(tm).tstore
                            /\ disk' =
                                 IF Inserted(tm).tstore.kind = "file"
                                 THEN [disk EXCEPT !.templates =
                                          Put(@, tm.Name, TemplateRec(tm))]
                                 ELSE disk
        /\ UNCHANGED << ledger, usage, consumers, streams, made, calls >>

\* jsAccount.addStreamNameToTemplate (jetstream.go:1777-1790): the template
\* map it leaves.
addStreamNameToTemplate(tname, mname) ==
    IF Registered(tname)
    THEN [templates EXCEPT !.map[tname].streams = Append(@, mname)]
    ELSE templates

\* jetstream.go:607-645: whether the recovery hands a consumer whose files
\* are damaged in the way how to Stream.AddConsumer and the consumer is
\* registered: the metafile must exist, be read and be JSON, the checksum
\* file must exist, and AddConsumer must return no error.
ConsumerRecovered(how) == how \notin {"nometa", "nosum", "badjson", "refused"}

\* jetstream.go:556-645: the next stream of the directory.  Damaged files
\* skip it (jetstream.go:563-592); otherwise its name goes to the list of
\* the template it names, then Account.AddStream, whose error only skips
\* the stream (snap: the streams it returned an error for), then the
\* consumers of its directory.
RecoverStream(t) ==
    LET r == th[t]
    IN  /\ r.pc = "R_streams"
        /\ IF r.list = << >>
           THEN /\ th' = [th EXCEPT ![t] = Ret(r, ErrNil)]
                /\ UNCHANGED << templates, streams, consumers >>
           ELSE LET n == Head(r.list)
                    how == StreamDamage(n)
                    cfg == disk.streams[n]
                    lim == checkLimits(TemplateLimits,
                               Cardinality(DOMAIN streams),
                               usage.memReserved, usage.storeReserved, cfg)
                    added == /\ n \notin DOMAIN streams
                             /\ lim.err = ErrNil
                             /\ cfg.Template # "" => Registered(cfg.Template)
                             /\ how # "refused"
                    found == IF n \in DOMAIN disk.consumers
                             THEN disk.consumers[n] ELSE {}
                IN  IF \/ n \notin DOMAIN disk.streams
                       \/ how \notin {"ok", "refused"}
                    THEN /\ th' = [th EXCEPT ![t] =
                                [r EXCEPT !.list = Rest(@, how)]]
                         /\ UNCHANGED << templates, streams, consumers >>
                    ELSE /\ th' = [th EXCEPT ![t] =
                                [r EXCEPT !.list = Rest(@, how),
                                          !.snap = IF added THEN @
                                                   ELSE @ \cup {n}]]
                         /\ templates' =
                              IF cfg.Template # ""
                              THEN addStreamNameToTemplate(cfg.Template, n)
                              ELSE templates
                         /\ streams' = IF added
                                       THEN Put(streams, n, lim.config)
                                       ELSE streams
                         /\ consumers' =
                              IF added
                              THEN Put(consumers, n,
                                       {c \in found : ConsumerRecovered(
                                                   ConsumerDamage(n, c))})
                              ELSE consumers
        /\ UNCHANGED << ledger, usage, tstore, disk, made, calls >>

\* The limits an update sets.
UpdateArgs == {Ptr(Limits(40, 40, 1, 2))}

InitRecover ==
    /\ InitAccountG({Ptr(Limits(40, 40, 2, 2))})
    /\ streams = EmptyMap
    /\ usage = ZeroUsage
    /\ consumers = EmptyMap
    /\ \E max \in {1, 2}, st \in {MemoryStorage, FileStorage} :
          FirstTemplate(NewTemplate("T", max,
                            StreamConfig(<< "_" >>, ProtoSubjects("T"), st,
                                         "")))

RecoverStep(t) ==
    \/ EnableMigrate(t)
    \/ \E s \in Subjects : DispatchCheck(t, "T", s)
    \/ DispatchAppend(t)
    \/ DispatchAdd(t)
    \/ DispatchValidate(t)
    \/ \E tn \in {"T", "U"}, max \in {1, 2},
          st \in {MemoryStorage, FileStorage} :
          AddTemplateRegister(t, tn, max, st)
    \/ AddTemplateStore(t)
    \/ DeleteStreamTemplate(t, "T")
    \/ TemplateDeleteStart(t)
    \/ TemplateDeleteUnregister(t)
    \/ TemplateDeleteCollect(t)
    \/ TemplateDeleteStore(t)
    \/ TemplateDeleteStream(t)
    \/ \E l \in UpdateArgs : AcctUpdateCall(t, "G", l)
    \/ AcctUpdateDiff(t)
    \/ AcctUpdateLedger(t)
    \/ AcctUpdateStore(t)
    \/ Restart(t)
    \/ RecoverTemplate(t)
    \/ RecoverStream(t)
    \/ ReturnTemplate(t)

\* The calls come one after the other, from one goroutine.
NextRecover == \E t \in {"t1"} : RecoverStep(t)

SpecRecover == InitRecover /\ [][NextRecover]_vars

\* ------------------------------------------------------------------------
\* Recovery from a damaged store directory: Account.EnableJetStream of the
\* account "G" from its look at the directory to its return
\* (jetstream.go:492-650), for every store directory of the bounds below.
\* ------------------------------------------------------------------------

\* At most this many entries of the store directory have damaged files.
MaxDamaged == 1

\* The consumer directories a stream directory may hold.
ConsumerNames == {<< "d" >>, << "e" >>}

\* The stream directories the store directory may hold.
StreamNames == {<< "a", "_", "b" >>, << "c" >>}

\* The templates directory: empty, or holding the template "T".
DiskTemplates ==
    {EmptyMap,
     Put(EmptyMap, "T",
         TemplateRec(NewTemplate("T", 2,
             StreamConfig(<< "_" >>, ProtoSubjects("T"), FileStorage,
                          ""))))}

\* The stream directories: any of StreamNames, each a file stream that
\* names the template "T" or none.
DiskStreams ==
    UNION {{[n \in S |-> StreamConfig(n, << n >>, FileStorage, f[n])] :
               f \in [S -> {"", "T"}]} : S \in SUBSET StreamNames}

\* The damage a store directory of these templates, streams and consumers
\* can have: each damaged entry is there, and there are at most MaxDamaged.
DiskDamage(tmpls, strs, cons) ==
    LET there == {TemplateEntry(tn) : tn \in DOMAIN tmpls}
                 \cup {StreamEntry(n) : n \in DOMAIN strs}
                 \cup UNION {{ConsumerEntry(n, c) : c \in cons[n]} :
                                n \in DOMAIN strs}
    IN  UNION {[S -> Damage] :
                  S \in {X \in SUBSET there : Cardinality(X) <= MaxDamaged}}

\* The account "G" is stamped enabled, nothing is registered yet, goroutine
\* t1 is in Account.EnableJetStream at its look at the store directory,
\* which is of the present layout or, holding no template, of the old one.
InitRestore ==
    /\ InitAccountG({Ptr(Limits(40, 40, 2, 2))})
    /\ streams = EmptyMap
    /\ usage = ZeroUsage
    /\ consumers = EmptyMap
    /\ templates = [nil |-> TRUE, map |-> EmptyMap]
    /\ tstore = NoStore
    /\ \E tmpls \in DiskTemplates, strs \in DiskStreams, old \in BOOLEAN :
          \E cons \in [DOMAIN strs -> SUBSET ConsumerNames] :
             \E dmg \in DiskDamage(tmpls, strs, cons) :
                /\ old => tmpls = EmptyMap
                /\ disk = [templates |-> tmpls,
                           streams |-> IF old THEN EmptyMap ELSE strs,
                           consumers |-> cons, damage |-> dmg,
                           sdir |-> ~old,
                           legacy |-> IF old THEN strs ELSE EmptyMap]

\* InitAccountG leaves every goroutine idle; goroutine t1 enters the
\* recovery.
EnterRecovery(t) ==
    /\ th[t].pc = "idle"
    /\ calls = 0
    /\ calls' = 1
    /\ th' = [th EXCEPT ![t] =
          [Idle EXCEPT !.op = "Recover", !.pc = "E_migrate",
                       !.acc = jsaObj[1].account]]
    /\ UNCHANGED << ledger, stores, disk, streams, templates, made >>

RestoreStep(t) ==
    \/ EnterRecovery(t)
    \/ EnableMigrate(t)
    \/ RecoverTemplate(t)
    \/ RecoverStream(t)

NextRestore == \E t \in {"t1"} : RestoreStep(t)

SpecRestore == InitRestore /\ [][NextRestore]_vars

\* ------------------------------------------------------------------------
\* Requests beside an enable in progress: goroutine t1 is in
\* Account.EnableJetStream of the account "G" from the stamp of a.js on
\* (jetstream.go:476-650) while stream-create requests for the account
\* are served.
\* ------------------------------------------------------------------------

\* The account "G" is in js.accounts and a.js is set (jetstream.go:469-478);
\* the store directory is undamaged, of the present layout or of the old.
InitEnable ==
    /\ InitAccountG({Ptr(Limits(40, 40, 2, 2))})
    /\ streams = EmptyMap
    /\ usage = ZeroUsage
    /\ consumers = EmptyMap
    /\ templates = [nil |-> TRUE, map |-> EmptyMap]
    /\ tstore = NoStore
    /\ \E tmpls \in DiskTemplates, strs \in DiskStreams, old \in BOOLEAN :
          /\ old => tmpls = EmptyMap
          /\ disk = [EmptyDisk EXCEPT
                        !.templates = tmpls,
                        !.streams = IF old THEN EmptyMap ELSE strs,
                        !.consumers = [n \in DOMAIN strs |-> {}],
                        !.sdir = ~old,
                        !.legacy = IF old THEN strs ELSE EmptyMap]

\* Goroutine t1 has stamped a.js and comes to the service imports
\* (jetstream.go:476-481).
EnterEnable(t) ==
    /\ t = "t1"
    /\ th[t].pc = "idle"
    /\ calls = 0
    /\ \A u \in Threads : th[u].op = ""
    /\ calls' = 1
    /\ th' = [th EXCEPT ![t] =
          [Idle EXCEPT !.op = "Recover", !.pc = "E_imports",
                       !.acc = jsaObj[1].account]]
    /\ UNCHANGED << ledger, stores, disk, streams, templates, made >>

\* jetstream.go:481-486: the service imports of the JetStream API are
\* added to the account, or AddServiceImport fails and the call returns.
EnableImports(t) ==
    LET r == th[t]
    IN  /\ r.pc = "E_imports"
        /\ \E ok \in BOOLEAN :
              th' = [th EXCEPT ![t] =
                  IF ok THEN [r EXCEPT !.pc = "E_migrate"]
                  ELSE Ret(r, ErrImport)]
        /\ UNCHANGED << ledger, stores, disk, streams, templates, made,
                        calls >>

\* The account imports the JetStream API: an enable has passed
\* jetstream.go:482-486.
ImportsAdded ==
    \E u \in Threads :
        /\ th[u].op = "Recover"
        /\ th[u].pc # "E_imports"
        /\ th[u].err # ErrImport

\* A stream-create request of the account reaches
\* Server.jsCreateStreamRequest (jetstream.go:1128-1152).
RequestAddStream(t, name, template) ==
    /\ ImportsAdded
    /\ ApiAddStream(t, name, template)

EnableStep(t) ==
    \/ EnterEnable(t)
    \/ EnableImports(t)
    \/ EnableMigrate(t)
    \/ RecoverTemplate(t)
    \/ RecoverStream(t)
    \/ \E s \in Subjects, tn \in {"", "T"} :
          RequestAddStream(t, CanonicalName(s), tn)
    \/ ReturnTemplate(t)

NextEnable == \E t \in Threads : EnableStep(t)

SpecEnable == InitEnable /\ [][NextEnable]_vars

\* ------------------------------------------------------------------------
\* The request API (jetstream.go:1004-1457): each handler answers one
\* request of an account.  A request is its account, its body and the
\* name tokens of its subject (token 2, and token 4 of the consumer
\* subjects); reply is what sendInternalAccountMsg sends, flag whether the
\* handler went on to a lookup or a listing, did whether it called a
\* creation, a deletion or a purge.
\* ------------------------------------------------------------------------

\* Bodies: empty, bytes that json.Unmarshal rejects, or the JSON of a
\* StreamTemplateConfig, a StreamConfig or a CreateConsumerRequest, by the
\* names it carries.
EmptyBody == [kind |-> "empty", tname |-> "", sname |-> << >>,
              durable |-> << >>]
JunkBody == [EmptyBody EXCEPT !.kind = "junk"]
TemplateBody(tn) == [EmptyBody EXCEPT !.kind = "json", !.tname = tn]
StreamBody(sn) == [EmptyBody EXCEPT !.kind = "json", !.sname = sn]
ConsumerBody(sn, d) ==
    [EmptyBody EXCEPT !.kind = "json", !.sname = sn, !.durable = d]

\* json.Unmarshal(msg, &cfg) returns nil.
Decodes(body) == body.kind = "json"

\* The replies (jetstream.go:61-68, 1838-1840); a reply that is neither
\* +OK nor -ERR is the JSON of what was asked for.
OK == [kind |-> "+OK", text |-> "", name |-> << >>]
protoErr(e) == [kind |-> "-ERR", text |-> e, name |-> << >>]
JetStreamNotEnabled == protoErr("jetstream not enabled for account")
JetStreamBadRequest == protoErr("bad request")
Json(what) == [kind |-> "json", text |-> what, name |-> << >>]

ErrStreamNameMismatch == "stream name in subject does not match request"
ErrTemplateNameMismatch == "template name in subject does not match request"
ErrNotDurable ==
    "consumer expected to be durable but a durable name was not set"
ErrNotEphemeral ==
    "consumer expected to be ephemeral but a durable name was set"
ErrConsumerNameMismatch ==
    "consumer name in subject does not match durable name in request"
ErrConsumerNotFound == "consumer not found"
ErrAddConsumer == "could not add the consumer"
ErrConsumerDelete == "could not delete the consumer"

\* Account.JetStreamEnabled (jetstream.go:836-844).
JetStreamEnabled(a) == accJs[a] # 0

\* The consumers registered with the stream n.
ConsumersOf(n) == IF n \in DOMAIN consumers THEN consumers[n] ELSE {}

\* The names Stream.AddConsumer gives to ephemeral consumers.
EphemeralNames == {<< "_", "1" >>, << "_", "2" >>}

\* The names durable consumers are asked for, in bodies and subjects.
DurableNames == {<< "d" >>, << "a", "*", "b" >>}

\* A name an entity may have: not empty, and without '.', '*' and '>'.
LegalName(name) ==
    /\ name # << >>
    /\ \A i \in 1..Len(name) : name[i] \notin {".", "*", ">"}

\* The locals of a handler that has its request.
Request(op, a, body, tn, sn, cn) ==
    [Idle EXCEPT !.op = op, !.acc = a, !.msg = body, !.tn = tn, !.cn = sn,
                 !.con = cn]

\* Goroutine t, with the locals r, has sent its reply and returns.
Replied(t, r, reply, looked, acted) ==
    /\ th[t].pc = "idle"
    /\ calls < MaxDeliveries
    /\ calls' = calls + 1
    /\ th' = [th EXCEPT ![t] =
          [r EXCEPT !.pc = "ret", !.reply = reply, !.flag = looked,
                    !.did = acted]]

\* The same, of a handler that changed nothing.
Answered(t, r, reply, looked) ==
    /\ Replied(t, r, reply, looked, FALSE)
    /\ UNCHANGED << ledger, stores, disk, streams, templates, made >>

\* Server.jsAccountInfoRequest (jetstream.go:1004-1018).
jsAccountInfoRequest(t, a, body) ==
    LET r == Request("jsAccountInfoRequest", a, body, "", << >>, << >>)
    IN  IF ~JetStreamEnabled(a)
        THEN Answered(t, r, JetStreamNotEnabled, FALSE)
        ELSE Answered(t, r, Json("usage"), TRUE)

\* Server.jsTemplateListRequest (jetstream.go:1048-1069).
jsTemplateListRequest(t, a, body) ==
    LET r == Request("jsTemplateListRequest", a, body, "", << >>, << >>)
    IN  IF ~JetStreamEnabled(a)
        THEN Answered(t, r, JetStreamNotEnabled, FALSE)
        ELSE Answered(t, r, Json("templates"), TRUE)

\* Server.jsTemplateInfoRequest (jetstream.go:1072-1103).
jsTemplateInfoRequest(t, a, body, tn) ==
    LET r == Request("jsTemplateInfoRequest", a, body, tn, << >>, << >>)
    IN  IF ~JetStreamEnabled(a)
        THEN Answered(t, r, JetStreamNotEnabled, FALSE)
        ELSE IF body.kind # "empty"
        THEN Answered(t, r, JetStreamBadRequest, FALSE)
        ELSE IF ~Registered(tn)
        THEN Answered(t, r, protoErr(ErrNoTemplate), TRUE)
        ELSE Answered(t, r, Json("template"), TRUE)

\* Server.jsTemplateDeleteRequest (jetstream.go:1106-1125): past its
\* checks it is Account.DeleteStreamTemplate, whose error or nil makes the
\* reply.
jsTemplateDeleteRequest(t, a, body, tn) ==
    LET r == Request("jsTemplateDeleteRequest", a, body, tn, << >>, << >>)
    IN  IF ~JetStreamEnabled(a)
        THEN Answered(t, r, JetStreamNotEnabled, FALSE)
        ELSE IF body.kind # "empty"
        THEN Answered(t, r, JetStreamBadRequest, FALSE)
        ELSE IF tn \notin DOMAIN templates.map
        THEN Answered(t, r, protoErr(ErrNoTemplate), TRUE)
        ELSE DeleteStreamTemplate(t, tn)

\* Server.jsStreamListRequest (jetstream.go:1155-1173).
jsStreamListRequest(t, a, body) ==
    LET r == Request("jsStreamListRequest", a, body, "", << >>, << >>)
    IN  IF ~JetStreamEnabled(a)
        THEN Answered(t, r, JetStreamNotEnabled, FALSE)
        ELSE Answered(t, r, Json("streams"), TRUE)

\* Server.jsStreamInfoRequest (jetstream.go:1176-1203).
jsStreamInfoRequest(t, a, body, sn) ==
    LET r == Request("jsStreamInfoRequest", a, body, "", sn, << >>)
    IN  IF ~JetStreamEnabled(a)
        THEN Answered(t, r, JetStreamNotEnabled, FALSE)
        ELSE IF body.kind # "empty"
        THEN Answered(t, r, JetStreamBadRequest, FALSE)
        ELSE IF LookupStream(sn) # ErrNil
        THEN Answered(t, r, protoErr(LookupStream(sn)), TRUE)
        ELSE Answered(t, r, Json("stream"), TRUE)

\* Server.jsStreamDeleteRequest (jetstream.go:1206-1229); Stream.Delete
\* removes the stream with its consumers, or fails.
jsStreamDeleteRequest(t, a, body, sn) ==
    LET r == Request("jsStreamDeleteRequest", a, body, "", sn, << >>)
    IN  IF ~JetStreamEnabled(a)
        THEN Answered(t, r, JetStreamNotEnabled, FALSE)
        ELSE IF body.kind # "empty"
        THEN Answered(t, r, JetStreamBadRequest, FALSE)
        ELSE IF LookupStream(sn) # ErrNil
        THEN Answered(t, r, protoErr(LookupStream(sn)), TRUE)
        ELSE \E ok \in BOOLEAN :
                /\ Replied(t, r, IF ok THEN OK
                                 ELSE protoErr(ErrStreamDelete), TRUE, TRUE)
                /\ streams' = IF ok THEN Drop(streams, sn) ELSE streams
                /\ consumers' = IF ok THEN Drop(consumers, sn)
                                ELSE consumers
                /\ disk' = IF ok /\ sn \in DOMAIN disk.streams
                            THEN [disk EXCEPT !.streams = Drop(@, sn),
                                              !.consumers = Drop(@, sn)]
                            ELSE disk
                /\ UNCHANGED << ledger, usage, tstore, templates, made >>

\* Server.jsStreamPurgeRequest (jetstream.go:1260-1281).
jsStreamPurgeRequest(t, a, body, sn) ==
    LET r == Request("jsStreamPurgeRequest", a, body, "", sn, << >>)
    IN  IF ~JetStreamEnabled(a)
        THEN Answered(t, r, JetStreamNotEnabled, FALSE)
        ELSE IF body.kind # "empty"
        THEN Answered(t, r, JetStreamBadRequest, FALSE)
        ELSE IF LookupStream(sn) # ErrNil
        THEN Answered(t, r, protoErr(LookupStream(sn)), TRUE)
        ELSE /\ Replied(t, r, OK, TRUE, TRUE)
             /\ UNCHANGED << ledger, stores, disk, streams, templates,
                             made >>

\* Server.jsConsumersRequest (jetstream.go:1364-1392).
jsConsumersRequest(t, a, body, sn) ==
    LET r == Request("jsConsumersRequest", a, body, "", sn, << >>)
    IN  IF ~JetStreamEnabled(a)
        THEN Answered(t, r, JetStreamNotEnabled, FALSE)
        ELSE IF body.kind # "empty"
        THEN Answered(t, r, JetStreamBadRequest, FALSE)
        ELSE IF LookupStream(sn) # ErrNil
        THEN Answered(t, r, protoErr(LookupStream(sn)), TRUE)
        ELSE Answered(t, r, Json("consumers"), TRUE)

\* Server.jsConsumerInfoRequest (jetstream.go:1395-1425).
jsConsumerInfoRequest(t, a, body, sn, cn) ==
    LET r == Request("jsConsumerInfoRequest", a, body, "", sn, cn)
    IN  IF ~JetStreamEnabled(a)
        THEN Answered(t, r, JetStreamNotEnabled, FALSE)
        ELSE IF body.kind # "empty"
        THEN Answered(t, r, JetStreamBadRequest, FALSE)
        ELSE IF LookupStream(sn) # ErrNil
        THEN Answered(t, r, protoErr(LookupStream(sn)), TRUE)
        ELSE IF cn \notin ConsumersOf(sn)
        THEN Answered(t, r, protoErr(ErrConsumerNotFound), TRUE)
        ELSE Answered(t, r, Json("consumer"), TRUE)

\* Server.jsConsumerDeleteRequest (jetstream.go:1428-1457); Consumer.Delete
\* removes the consumer, or fails.
jsConsumerDeleteRequest(t, a, body, sn, cn) ==
    LET r == Request("jsConsumerDeleteRequest", a, body, "", sn, cn)
    IN  IF ~JetStreamEnabled(a)
        THEN Answered(t, r, JetStreamNotEnabled, FALSE)
        ELSE IF body.kind # "empty"
        THEN Answered(t, r, JetStreamBadRequest, FALSE)
        ELSE IF LookupStream(sn) # ErrNil
        THEN Answered(t, r, protoErr(LookupStream(sn)), TRUE)
        ELSE IF cn \notin ConsumersOf(sn)
        THEN Answered(t, r, protoErr(ErrConsumerNotFound), TRUE)
        ELSE \E ok \in BOOLEAN :
                /\ Replied(t, r, IF ok THEN OK
                                 ELSE protoErr(ErrConsumerDelete),
                           TRUE, TRUE)
                /\ consumers' = IF ok
                                THEN [consumers EXCEPT ![sn] = @ \ {cn}]
                                ELSE consumers
                /\ UNCHANGED << ledger, usage, tstore, disk, streams,
                                templates, made >>

\* Any name matches the token of the subject.
NamesMatchAny(token, name) == TRUE

\* The comparison of a name token of the subject with the name in the
\* body (jetstream.go:1034-1035, 1141-1142, 1297-1298, 1312-1313,
\* 1338-1339).
NamesMatch(token, name) == token = name

\* Server.jsCreateTemplateRequest (jetstream.go:1021-1045): past its
\* checks it is Account.AddStreamTemplate, whose error or nil makes the
\* reply.
jsCreateTemplateRequest(t, a, body, tn, max, st) ==
    LET r == Request("jsCreateTemplateRequest", a, body, tn, << >>, << >>)
    IN  IF ~JetStreamEnabled(a)
        THEN Answered(t, r, JetStreamNotEnabled, FALSE)
        ELSE IF ~Decodes(body)
        THEN Answered(t, r, JetStreamBadRequest, FALSE)
        ELSE IF ~NamesMatch(tn, body.tname)
        THEN Answered(t, r, protoErr(ErrTemplateNameMismatch), FALSE)
        ELSE AddTemplateRegister(t, body.tname, max, st)

\* Server.jsCreateStreamRequest (jetstream.go:1128-1152): past its checks
\* it is Account.AddStream, whose error or nil makes the reply.
jsCreateStreamRequest(t, a, body, sn) ==
    LET r == Request("jsCreateStreamRequest", a, body, "", sn, << >>)
    IN  IF ~JetStreamEnabled(a)
        THEN Answered(t, r, JetStreamNotEnabled, FALSE)
        ELSE IF ~Decodes(body)
        THEN Answered(t, r, JetStreamBadRequest, FALSE)
        ELSE IF ~NamesMatch(sn, body.sname)
        THEN Answered(t, r, protoErr(ErrStreamNameMismatch), FALSE)
        ELSE ApiAddStream(t, body.sname, "")

\* Stream.AddConsumer of the stream sn with the durable name d, or with
\* none: the consumer is registered under its durable name or under a
\* name the stream gives it and +OK, with the name of an ephemeral one,
\* is the reply (jetstream.go:1317-1321, 1353-1360), or AddConsumer fails.
AddConsumer(t, r, sn, d) ==
    \E ok \in BOOLEAN :
        LET free == EphemeralNames \ ConsumersOf(sn)
            name == IF d # << >> THEN d ELSE CHOOSE x \in free : TRUE
            done == ok /\ (d = << >> => free # {})
        IN  /\ Replied(t, r,
                       IF ~done THEN protoErr(ErrAddConsumer)
                       ELSE IF d = << >> THEN [OK EXCEPT !.name = name]
                       ELSE OK,
                       TRUE, TRUE)
            /\ consumers' = IF done
                            THEN Put(consumers, sn,
                                     ConsumersOf(sn) \cup {name})
                            ELSE consumers
            /\ UNCHANGED << ledger, usage, tstore, disk, streams,
                            templates, made >>

\* Server.jsCreateConsumerRequest (jetstream.go:1284-1322).
jsCreateConsumerRequest(t, a, body, sn, cn) ==
    LET r == Request("jsCreateConsumerRequest", a, body, "", sn, cn)
    IN  IF ~JetStreamEnabled(a)
        THEN Answered(t, r, JetStreamNotEnabled, FALSE)
        ELSE IF ~Decodes(body)
        THEN Answered(t, r, JetStreamBadRequest, FALSE)
        ELSE IF ~NamesMatch(sn, body.sname)
        THEN Answered(t, r, protoErr(ErrStreamNameMismatch), FALSE)
        ELSE IF LookupStream(body.sname) # ErrNil
        THEN Answered(t, r, protoErr(LookupStream(body.sname)), TRUE)
        ELSE IF body.durable = << >>
        THEN Answered(t, r, protoErr(ErrNotDurable), TRUE)
        ELSE IF ~NamesMatch(cn, body.durable)
        THEN Answered(t, r, protoErr(ErrConsumerNameMismatch), TRUE)
        ELSE AddConsumer(t, r, body.sname, body.durable)

\* Server.jsCreateEphemeralConsumerRequest (jetstream.go:1325-1361).
jsCreateEphemeralConsumerRequest(t, a, body, sn) ==
    LET r == Request("jsCreateEphemeralConsumerRequest", a, body, "", sn,
                     << >>)
    IN  IF ~JetStreamEnabled(a)
        THEN Answered(t, r, JetStreamNotEnabled, FALSE)
        ELSE IF ~Decodes(body)
        THEN Answered(t, r, JetStreamBadRequest, FALSE)
        ELSE IF ~NamesMatch(sn, body.sname)
        THEN Answered(t, r, protoErr(ErrStreamNameMismatch), FALSE)
        ELSE IF LookupStream(body.sname) # ErrNil
        THEN Answered(t, r, protoErr(LookupStream(body.sname)), TRUE)
        ELSE IF body.durable # << >>
        THEN Answered(t, r, protoErr(ErrNotEphemeral), TRUE)
        ELSE AddConsumer(t, r, body.sname, << >>)

\* The bodies of the requests that carry none, of the template, stream and
\* consumer requests.
QueryBodies == {EmptyBody, JunkBody}
TemplateBodies == {EmptyBody, JunkBody, TemplateBody("T"), TemplateBody("U")}
StreamBodies == {JunkBody} \cup {StreamBody(n) : n \in StreamNames}
ConsumerBodies ==
    {JunkBody} \cup {ConsumerBody(n, d) : n \in StreamNames,
                                          d \in DurableNames \cup {<< >>}}

\* The account "G" is enabled, the account "B" is not; "G" has the
\* template "T".
InitApi ==
    /\ InitAccountG({Ptr(Limits(40, 40, 2, 2))})
    /\ streams = EmptyMap
    /\ usage = ZeroUsage
    /\ consumers = EmptyMap
    /\ FirstTemplate(NewTemplate("T", 1,
                         StreamConfig(<< "_" >>, ProtoSubjects("T"),
                                      MemoryStorage, "")))

ApiStep(t) ==
    \/ \E a \in Accounts, b \in QueryBodies :
          \/ jsAccountInfoRequest(t, a, b)
          \/ jsTemplateListRequest(t, a, b)
          \/ jsStreamListRequest(t, a, b)
          \/ \E tn \in {"T", "U"} :
                \/ jsTemplateInfoRequest(t, a, b, tn)
                \/ jsTemplateDeleteRequest(t, a, b, tn)
          \/ \E sn \in StreamNames :
                \/ jsStreamInfoRequest(t, a, b, sn)
                \/ jsStreamDeleteRequest(t, a, b, sn)
                \/ jsStreamPurgeRequest(t, a, b, sn)
                \/ jsConsumersRequest(t, a, b, sn)
                \/ \E cn \in DurableNames :
                      \/ jsConsumerInfoRequest(t, a, b, sn, cn)
                      \/ jsConsumerDeleteRequest(t, a, b, sn, cn)
    \/ \E a \in Accounts, b \in TemplateBodies, tn \in {"T", "U"} :
          jsCreateTemplateRequest(t, a, b, tn, 1, MemoryStorage)
    \/ \E a \in Accounts, b \in StreamBodies, sn \in StreamNames :
          jsCreateStreamRequest(t, a, b, sn)
    \/ \E a \in Accounts, b \in ConsumerBodies, sn \in StreamNames :
          \/ jsCreateEphemeralConsumerRequest(t, a, b, sn)
          \/ \E cn \in DurableNames : jsCreateConsumerRequest(t, a, b, sn, cn)
    \/ AddTemplateStore(t)
    \/ TemplateDeleteStart(t)
    \/ TemplateDeleteUnregister(t)
    \/ TemplateDeleteCollect(t)
    \/ TemplateDeleteStore(t)
    \/ TemplateDeleteStream(t)
    \/ ReturnTemplate(t)

NextApi == \E t \in {"t1"} : ApiStep(t)

SpecApi == InitApi /\ [][NextApi]_vars

\* ------------------------------------------------------------------------
\* Server.EnableJetStream on one config: the caller's config and the
\* memory of the host are drawn once, hist[1] holds them, and every call
\* of Server.EnableJetStream passes them (jetstream.go:232-257).
\* ------------------------------------------------------------------------

\* The configs of a caller: none, complete ones, ones with a single limit
\* or no limit set, with and without a store directory.
ConfigCases ==
    {Nil, Ptr(Config(60, 60, << "d" >>)), Ptr(Config(60, 60, << >>)),
     Ptr(Config(100, 0, << "d" >>)), Ptr(Config(0, 100, << "d" >>)),
     Ptr(Config(-1, -1, << "d" >>)), Ptr(Config(0, 0, << >>))}

InitConfig ==
    /\ standAlone = TRUE
    /\ globalOnly = FALSE
    /\ srvJs = 0
    /\ jsObj = [i \in 1..MaxJs |-> NoJs]
    /\ nJs = 0
    /\ jsaObj = [i \in 1..MaxJsa |-> NoJsa]
    /\ nJsa = 0
    /\ accJs = [a \in Accounts |-> 0]
    /\ th = [t \in Threads |-> Idle]
    /\ calls = 0
    /\ enabledOk = FALSE
    /\ held = [i \in 1..MaxJsa |-> [mem |-> 0, store |-> 0]]
    /\ \E c \in ConfigCases, m \in SysMemVals :
          hist = << [config |-> c, sysMem |-> m] >>
    /\ NoRegistries

ConfigStep(t) ==
    \/ SrvEnableCall(t, hist[1].config, hist[1].sysMem)
    \/ SrvEnableSetup(t)
    \/ ShutdownCall(t)
    \/ ShutdownClear(t)
    \/ Return(t)

NextConfig == \E t \in Threads : ConfigStep(t)

SpecConfig == InitConfig /\ [][NextConfig]_vars

\* ------------------------------------------------------------------------
\* The limits of an account: jsAccount.checkLimits, limitsExceeded and
\* updateUsage (jetstream.go:847-905) on the jsAccount of "G".
\* ------------------------------------------------------------------------
MaxChecks == 3    \* calls started in one behaviour of SpecLimits

LimitCases ==
    {Ptr(Limits(40, 40, 2, 2)), Ptr(Limits(-1, -1, -1, -1)),
     Ptr(Limits(40, -1, 1, 0))}

\* What the streams of the account may have reserved.
ReservedVals == {0, 30}

CheckConfigs ==
    {StreamCfg(<< "s" >>, st, mb, rp, mc) :
        st \in {MemoryStorage, FileStorage}, mb \in {0, 20},
        rp \in {1, 2}, mc \in {0, 1, 3}}

UsageDeltas == {50}

\* jsAccount.limitsExceeded (jetstream.go:858-872).
limitsExceeded(limits, u, storeType) ==
    IF storeType = MemoryStorage THEN u.memUsed > limits.MaxMemory
    ELSE u.storeUsed > limits.MaxStore

\* jsAccount.updateUsage (jetstream.go:847-856).
updateUsage(u, storeType, delta) ==
    IF storeType = MemoryStorage THEN [u EXCEPT !.memUsed = @ + delta]
    ELSE [u EXCEPT !.storeUsed = @ + delta]

\* The call of checkLimits that Account.AddStream makes under jsa.mu, for
\* the config of the request.
CheckLimitsCall(t, config) ==
    LET n == Cardinality(DOMAIN streams)
        res == checkLimits(TemplateLimits, n, usage.memReserved,
                           usage.storeReserved, config)
        r == [Idle EXCEPT !.op = "checkLimits", !.cfg = config,
                          !.out = res.config, !.seenN = n,
                          !.acc = jsaObj[1].account]
    IN  /\ th[t].pc = "idle"
        /\ calls < MaxChecks
        /\ calls' = calls + 1
        /\ th' = [th EXCEPT ![t] = Ret(r, res.err)]
        /\ UNCHANGED << ledger, stores, disk, streams, templates, made >>

LimitsExceededCall(t, storeType) ==
    LET r == [Idle EXCEPT !.op = "limitsExceeded", !.st = storeType,
                          !.flag = limitsExceeded(TemplateLimits, usage,
                                                  storeType),
                          !.acc = jsaObj[1].account]
    IN  /\ th[t].pc = "idle"
        /\ calls < MaxChecks
        /\ calls' = calls + 1
        /\ th' = [th EXCEPT ![t] = Ret(r, ErrNil)]
        /\ UNCHANGED << ledger, stores, disk, streams, templates, made >>

UpdateUsageCall(t, storeType, delta) ==
    LET r == [Idle EXCEPT !.op = "updateUsage", !.st = storeType,
                          !.acc = jsaObj[1].account]
    IN  /\ th[t].pc = "idle"
        /\ calls < MaxChecks
        /\ calls' = calls + 1
        /\ usage' = updateUsage(usage, storeType, delta)
        /\ th' = [th EXCEPT ![t] = Ret(r, ErrNil)]
        /\ UNCHANGED << ledger, tstore, consumers, disk, streams, templates,
                        made >>

InitLimits ==
    /\ InitAccountG(LimitCases)
    /\ streams = EmptyMap
    /\ templates = [nil |-> TRUE, map |-> EmptyMap]
    /\ tstore = NoStore
    /\ disk = EmptyDisk
    /\ consumers = EmptyMap
    /\ \E m \in ReservedVals, f \in ReservedVals :
          usage = [ZeroUsage EXCEPT !.memReserved = m, !.storeReserved = f]

LimitsStep(t) ==
    \/ \E c \in CheckConfigs : CheckLimitsCall(t, c)
    \/ \E st \in {MemoryStorage, FileStorage} : LimitsExceededCall(t, st)
    \/ \E st \in {MemoryStorage, FileStorage}, d \in UsageDeltas :
          UpdateUsageCall(t, st, d)
    \/ \E s \in Subjects : ApiAddStream(t, CanonicalName(s), "")
    \/ ReturnTemplate(t)

NextLimits == \E t \in Threads : LimitsStep(t)

SpecLimits == InitLimits /\ [][NextLimits]_vars

\* ------------------------------------------------------------------------
\* Hot reload of the server options (reload.go).  Reload holds s.mu from
\* its first statement to its return, so a reload is one step.
\* ------------------------------------------------------------------------

\* Fields of Options, in an order in which one that cannot be reloaded lies
\* between those that can.
OptionFields == << "Trace", "Port", "Debug", "TLSConfig", "TLSTimeout" >>

\* *tls.Config: nil, or a config with its ClientAuth.
RequireAndVerifyClientCert == "RequireAndVerifyClientCert"
TlsConfigs ==
    {Nil, Ptr([ClientAuth |-> "NoClientCert"]),
     Ptr([ClientAuth |-> RequireAndVerifyClientCert])}

\* The Options a config file and the flags can produce.
OptionValues ==
    [Trace : BOOLEAN, Port : {4222, 4223}, Debug : BOOLEAN,
     TLSConfig : TlsConfigs, TLSTimeout : {1, 2}]

ErrNoConfigFile ==
    "Can only reload config when a file is provided using -c or --config"
ErrConfigReload == "Config reload failed"
ErrReloadNotSupported(field) == "Config reload not supported for " \o field

\* A started server: the TLS part of its info is that of its options.
StartedServer(file, o) ==
    [configFile |-> file, opts |-> o,
     info |-> [TLSRequired |-> o.TLSConfig # Nil,
               TLSVerify |-> o.TLSConfig # Nil /\
                   o.TLSConfig[1].ClientAuth = RequireAndVerifyClientCert],
     applied |-> << >>, arg |-> << >>]

\* The option objects of reload.go:23-48.
traceOption(v) == [kind |-> "trace", newValue |-> << v >>]
debugOption(v) == [kind |-> "debug", newValue |-> << v >>]
tlsOption(v) == [kind |-> "tls", newValue |-> v]

\* Server.diffOptions with every field it does not know skipped.
RECURSIVE diffOptionsLax(_, _, _)
diffOptionsLax(old, new, fields) ==
    IF fields = << >> THEN [err |-> ErrNil, opts |-> << >>]
    ELSE LET f == Head(fields)
             rest == diffOptionsLax(old, new, Tail(fields))
             one == IF old[f] = new[f] THEN << >>
                    ELSE IF f = "Trace" THEN << traceOption(new[f]) >>
                    ELSE IF f = "Debug" THEN << debugOption(new[f]) >>
                    ELSE IF f = "TLSConfig" THEN << tlsOption(new[f]) >>
                    ELSE << >>
         IN  [err |-> ErrNil, opts |-> one \o rest.opts]

\* Server.diffOptions (reload.go:99-133) over the fields that remain: the
\* changed options, or the error of the first changed field that cannot
\* be reloaded.  reflect.DeepEqual is equality of the values.
RECURSIVE diffOptions(_, _, _)
diffOptions(old, new, fields) ==
    IF fields = << >> THEN [err |-> ErrNil, opts |-> << >>]
    ELSE LET f == Head(fields)
             rest == diffOptions(old, new, Tail(fields))
         IN  IF old[f] = new[f] THEN rest
             ELSE IF f = "Trace"
             THEN [rest EXCEPT !.opts = << traceOption(new[f]) >> \o @]
             ELSE IF f = "Debug"
             THEN [rest EXCEPT !.opts = << debugOption(new[f]) >> \o @]
             ELSE IF f = "TLSConfig"
             THEN [rest EXCEPT !.opts = << tlsOption(new[f]) >> \o @]
             ELSE IF f = "TLSTimeout" THEN rest
             ELSE [err |-> ErrReloadNotSupported(f), opts |-> << >>]

\* option.Apply (reload.go:29-61): the trace and debug options reconfigure
\* the logger, the tls option rewrites the TLS part of the server info.
Apply(srv, opt) ==
    LET required == opt.newValue # Nil
        logged == [srv EXCEPT !.applied = Append(@, opt)]
    IN  IF opt.kind # "tls" THEN logged
        ELSE [logged EXCEPT
                 !.info.TLSRequired = required,
                 !.info.TLSVerify =
                     IF required
                     THEN opt.newValue[1].ClientAuth =
                              RequireAndVerifyClientCert
                     ELSE @]

\* Server.applyOptions (reload.go:135-141).
RECURSIVE applyOptions(_, _)
applyOptions(srv, opts) ==
    IF opts = << >> THEN srv
    ELSE applyOptions(Apply(srv, Head(opts)), Tail(opts))

\* Server.reloadOptions (reload.go:86-94): the error and the server after
\* it.
reloadOptions(srv, newOpts) ==
    LET d == diffOptions(srv.opts, newOpts, OptionFields)
    IN  IF d.err # ErrNil THEN [err |-> d.err, srv |-> srv]
        ELSE [err |-> ErrNil,
              srv |-> applyOptions([srv EXCEPT !.opts = newOpts], d.opts)]

\* The locals of a reload that returned e.
Reloaded(op, e) == [Idle EXCEPT !.op = op, !.pc = "ret", !.err = e]

\* Server.Reload (reload.go:66-82), under s.mu.  parsed is what
\* ProcessConfigFile, MergeOptions and processOptions make of the file
\* and the flags: nil when the file cannot be processed.
Reload(t, parsed) ==
    LET seen == [server EXCEPT !.applied = << >>, !.arg = parsed]
        res == reloadOptions(seen, parsed[1])
    IN  /\ th[t].pc = "idle"
        /\ IF server.configFile = ""
           THEN /\ th' = [th EXCEPT ![t] = Reloaded("Reload", ErrNoConfigFile)]
                /\ server' = seen
           ELSE IF parsed = Nil
           THEN /\ th' = [th EXCEPT ![t] = Reloaded("Reload", ErrConfigReload)]
                /\ server' = seen
           ELSE /\ th' = [th EXCEPT ![t] = Reloaded("Reload", res.err)]
                /\ server' = res.srv
        /\ UNCHANGED << standAlone, globalOnly, hist, srvJs, jsObj, nJs,
                        jsaObj, nJsa, accJs, enabledOk, held, calls,
                        streams, templates, made, usage, tstore, disk,
                        consumers >>

\* Server.reloadOptions called with the options newOpts.
ReloadOptionsCall(t, newOpts) ==
    LET seen == [server EXCEPT !.applied = << >>, !.arg = Ptr(newOpts)]
        res == reloadOptions(seen, newOpts)
    IN  /\ th[t].pc = "idle"
        /\ th' = [th EXCEPT ![t] = Reloaded("reloadOptions", res.err)]
        /\ server' = res.srv
        /\ UNCHANGED << standAlone, globalOnly, hist, srvJs, jsObj, nJs,
                        jsaObj, nJsa, accJs, enabledOk, held, calls,
                        streams, templates, made, usage, tstore, disk,
                        consumers >>

\* A server started with or without a config file, JetStream not enabled.
InitReload ==
    /\ standAlone = TRUE
    /\ globalOnly = FALSE
    /\ srvJs = 0
    /\ jsObj = [i \in 1..MaxJs |-> NoJs]
    /\ nJs = 0
    /\ jsaObj = [i \in 1..MaxJsa |-> NoJsa]
    /\ nJsa = 0
    /\ accJs = [a \in Accounts |-> 0]
    /\ th = [t \in Threads |-> Idle]
    /\ calls = 0
    /\ enabledOk = FALSE
    /\ held = [i \in 1..MaxJsa |-> [mem |-> 0, store |-> 0]]
    /\ hist = << >>
    /\ streams = EmptyMap
    /\ templates = [nil |-> TRUE, map |-> EmptyMap]
    /\ made = [n \in {CanonicalName(x) : x \in Subjects} |-> 0]
    /\ usage = ZeroUsage
    /\ tstore = NoStore
    /\ disk = EmptyDisk
    /\ consumers = EmptyMap
    /\ \E file \in {"", "nats.conf"}, o \in OptionValues :
          server = StartedServer(file, o)

ReloadStep(t) ==
    \/ \E parsed \in {Nil} \cup {Ptr(o) : o \in OptionValues} :
          Reload(t, parsed)
    \/ \E o \in OptionValues : ReloadOptionsCall(t, o)
    \/ Return(t)

NextReload == \E t \in {"t1"} : ReloadStep(t)

SpecReload == InitReload /\ [][NextReload]_vars

\* ------------------------------------------------------------------------
\* The locking of jetstream.go.  A call is the sequence of the lock
\* operations and of the reads and writes of shared fields that one path
\* through its code performs; every call of a function that takes locks is
\* expanded in place.  The account "G", its jsAccount and its template "T"
\* are the objects; js.mu, a.mu and jsa.mu are RWMutexes, s.mu and t.mu
\* Mutexes.
\* ------------------------------------------------------------------------
Lock(l) == << "Lock", l >>
Unlock(l) == << "Unlock", l >>
RLock(l) == << "RLock", l >>
RUnlock(l) == << "RUnlock", l >>
Read(x) == << "Read", x >>
Write(x) == << "Write", x >>

\* Server.getJetStream (jetstream.go:432-437).
getJetStreamLocks == << Lock("s.mu"), Read("s.js"), Unlock("s.mu") >>

\* jetStream.lookupAccount (jetstream.go:932-937).
lookupAccountLocks ==
    << RLock("js.mu"), Read("js.accounts"), RUnlock("js.mu") >>

\* Account.checkForJetStream (jetstream.go:1487-1502) and
\* Account.JetStreamEnabled (jetstream.go:836-844).
checkForJetStreamLocks == << RLock("a.mu"), Read("a.js"), RUnlock("a.mu") >>

\* Account.LookupStream (jetstream.go:684-699).
LookupStreamLocks ==
    << RLock("a.mu"), Read("a.js"), RUnlock("a.mu"),
       Lock("jsa.mu"), Read("jsa.streams"), Unlock("jsa.mu") >>

\* Account.LookupStreamTemplate (jetstream.go:1663-1678).
LookupStreamTemplateLocks ==
    checkForJetStreamLocks
    \o << Lock("jsa.mu"), Read("jsa.templates"), Unlock("jsa.mu") >>

\* jsAccount.checkTemplateOwnership (jetstream.go:1794-1809), which takes
\* no lock itself.
checkTemplateOwnershipLocks == << Read("jsa.templates"), Read("t.streams") >>

\* Account.AddStream as the specification describes it (sections 4.2 and
\* 4.4): the registry check, checkLimits, the ownership check and the
\* registration, under the account lock.
AddStreamLocks ==
    checkForJetStreamLocks
    \o << Lock("jsa.mu"), Read("jsa.streams"), Read("jsa.limits") >>
    \o checkTemplateOwnershipLocks
    \o << Write("jsa.streams"), Unlock("jsa.mu") >>

\* jsAccount.addStreamNameToTemplate (jetstream.go:1777-1790).
addStreamNameToTemplateLocks ==
    << Read("jsa.templates"), Lock("t.mu"), Read("t.streams"),
       Write("t.streams"), Unlock("t.mu") >>

\* Account.validateStreams (jetstream.go:1681-1691) on a list of one name.
validateStreamsLocks ==
    << Lock("t.mu"), Read("t.streams") >>
    \o LookupStreamLocks
    \o << Write("t.streams"), Unlock("t.mu") >>

\* jsAccount.flushState (jetstream.go:815-833).
flushStateLocks ==
    << Lock("jsa.mu"), Read("jsa.streams"), Unlock("jsa.mu") >>

\* jsAccount.delete (jetstream.go:908-929) of an account with one template:
\* Account.DeleteStreamTemplate returns from checkForJetStream when a.js is
\* nil and from LookupStreamTemplate otherwise, jsa.templates being nil.
jsaDeleteLocks(stamped) ==
    << Lock("jsa.mu"), Read("jsa.streams"), Read("jsa.templates"),
       Write("jsa.templates"), Unlock("jsa.mu") >>
    \o (IF stamped THEN LookupStreamTemplateLocks
        ELSE checkForJetStreamLocks)

\* jetStream.disableJetStream (jetstream.go:799-812).
disableJetStreamLocks(stamped) ==
    << Lock("js.mu"), Read("js.accounts"), Write("js.accounts"),
       Read("jsa.limits"), Read("js.reserved"), Write("js.reserved"),
       Unlock("js.mu") >>
    \o jsaDeleteLocks(stamped)

\* Server.EnableJetStream (jetstream.go:233-258): the rejected and the
\* accepted call.
SrvEnableLocks ==
    {<< Lock("s.mu"), Read("s.js"), Unlock("s.mu") >>,
     << Lock("s.mu"), Read("s.js"), Write("s.js"), Unlock("s.mu") >>}

\* Server.shutdownJetStream (jetstream.go:372-395): JetStream not enabled,
\* and enabled with one account in the account set.
shutdownJetStreamLocks ==
    {<< Lock("s.mu"), Read("s.js"), Unlock("s.mu") >>,
     << Lock("s.mu"), Read("s.js"), Read("js.accounts"), Unlock("s.mu") >>
     \o flushStateLocks
     \o << Read("s.js") >>
     \o disableJetStreamLocks(TRUE)
     \o << Lock("s.mu"), Read("s.js"), Write("js.accounts"), Write("s.js"),
           Unlock("s.mu") >>}

\* Server.JetStreamNumAccounts (jetstream.go:411-419).
NumAccountsLocks ==
    {getJetStreamLocks
     \o << Lock("js.mu"), Read("js.accounts"), Unlock("js.mu") >>}

\* Server.JetStreamReservedResources (jetstream.go:422-430).
ReservedResourcesLocks ==
    {getJetStreamLocks
     \o << RLock("js.mu"), Read("js.reserved"), RUnlock("js.mu") >>}

\* Account.EnableJetStream (jetstream.go:441-651): refused by the ledger,
\* and admitted, stamped and recovering one stream of the template.
AcctEnableLocks ==
    LET entry == << RLock("a.mu"), Read("a.srv"), RUnlock("a.mu") >>
                 \o getJetStreamLocks
    IN  {entry \o << Lock("js.mu"), Read("js.reserved"), Read("js.accounts"),
                     Unlock("js.mu") >>,
         entry \o << Lock("js.mu"), Read("js.reserved"), Read("js.accounts"),
                     Write("js.accounts"), Write("js.reserved"),
                     Unlock("js.mu"),
                     Lock("a.mu"), Write("a.js"), Unlock("a.mu") >>
               \o addStreamNameToTemplateLocks
               \o AddStreamLocks}

\* Account.UpdateJetStreamLimits (jetstream.go:702-747): refused by the
\* ledger, and accepted.
AcctUpdateLocks ==
    LET entry == << RLock("a.mu"), Read("a.srv"), RUnlock("a.mu") >>
                 \o getJetStreamLocks
                 \o lookupAccountLocks
                 \o << Lock("jsa.mu"), Read("jsa.limits"), Unlock("jsa.mu"),
                       Lock("js.mu"), Read("js.reserved") >>
    IN  {entry \o << Unlock("js.mu") >>,
         entry \o << Write("js.reserved"), Unlock("js.mu"),
                     Lock("jsa.mu"), Write("jsa.limits"),
                     Unlock("jsa.mu") >>}

\* Account.DisableJetStream (jetstream.go:775-796).
AcctDisableLocks ==
    {<< Lock("a.mu"), Read("a.srv"), Write("a.js"), Unlock("a.mu") >>
     \o getJetStreamLocks
     \o lookupAccountLocks
     \o disableJetStreamLocks(FALSE)}

\* StreamTemplate.processInboundTemplateMsg (jetstream.go:1615-1660): the
\* stream is registered; the template is at its limit; the stream is
\* created; the creation fails.
DispatchLocks ==
    LET check == << Lock("jsa.mu"), Read("jsa.streams"), Unlock("jsa.mu") >>
        cap == << Lock("t.mu"), Read("t.tc"), Read("t.streams") >>
    IN  {check,
         check \o cap \o << Unlock("t.mu") >>,
         check \o cap \o << Write("t.streams"), Unlock("t.mu") >>
               \o AddStreamLocks,
         check \o cap \o << Write("t.streams"), Unlock("t.mu") >>
               \o AddStreamLocks \o validateStreamsLocks}

\* Account.DeleteStreamTemplate (jetstream.go:1751-1757) with
\* StreamTemplate.Delete (jetstream.go:1693-1749) of a template with one
\* stream in its list.
TemplateDeleteLocks ==
    {LookupStreamTemplateLocks
     \o << Lock("t.mu"), Read("t.tc"), Write("t.tc"), Unlock("t.mu"),
           Lock("jsa.mu"), Read("jsa.templates"), Write("jsa.templates"),
           Unlock("jsa.mu"),
           Lock("t.mu"), Read("t.streams") >>
     \o LookupStreamLocks
     \o << Unlock("t.mu") >>}

\* Server.jsTemplateInfoRequest (jetstream.go:1072-1103).
TemplateInfoLocks ==
    {checkForJetStreamLocks
     \o LookupStreamTemplateLocks
     \o << Lock("t.mu"), Read("t.streams"), Unlock("t.mu") >>}

\* Account.AddStreamTemplate (jetstream.go:1535-1586) up to the
\* registration.
AddTemplateLocks ==
    {checkForJetStreamLocks
     \o << Lock("jsa.mu"), Read("jsa.templates"), Write("jsa.templates"),
           Unlock("jsa.mu") >>}

\* Server.jsCreateStreamRequest (jetstream.go:1128-1152) past its checks.
CreateStreamLocks == {checkForJetStreamLocks \o AddStreamLocks}

\* The calls the goroutines make.
LockPaths ==
    SrvEnableLocks \cup shutdownJetStreamLocks \cup NumAccountsLocks
    \cup ReservedResourcesLocks \cup AcctEnableLocks \cup AcctUpdateLocks
    \cup AcctDisableLocks \cup DispatchLocks \cup TemplateDeleteLocks
    \cup TemplateInfoLocks \cup AddTemplateLocks \cup CreateStreamLocks

\* The locks goroutine t holds in one of the modes.
Holds(t, l, modes) == \E m \in modes : << l, m >> \in th[t].snap

\* The next operation of goroutine t, when it is inside a call.
Running(t) == th[t].pc = "run" /\ th[t].list # << >>
NextOp(t) == Head(th[t].list)

\* A goroutine starts a call: list is what remains of its path, snap the
\* locks it holds.
Enter(t, path) ==
    /\ th[t].pc = "idle"
    /\ th' = [th EXCEPT ![t] = [Idle EXCEPT !.op = "call", !.pc = "run",
                                            !.list = path]]
    /\ UNCHANGED << ledger, stores, disk, streams, templates, made, calls >>

\* sync.Mutex.Lock and sync.RWMutex.Lock: the goroutine waits until no
\* goroutine holds the lock.
Acquire(t) ==
    /\ Running(t)
    /\ NextOp(t)[1] = "Lock"
    /\ \A u \in Threads : ~Holds(u, NextOp(t)[2], {"w", "r"})
    /\ th' = [th EXCEPT ![t].list = Tail(@),
                        ![t].snap = @ \cup {<< NextOp(t)[2], "w" >>}]
    /\ UNCHANGED << ledger, stores, disk, streams, templates, made, calls >>

\* sync.RWMutex.RLock: the goroutine waits until no goroutine holds the
\* lock for writing.
AcquireRead(t) ==
    /\ Running(t)
    /\ NextOp(t)[1] = "RLock"
    /\ \A u \in Threads : ~Holds(u, NextOp(t)[2], {"w"})
    /\ th' = [th EXCEPT ![t].list = Tail(@),
                        ![t].snap = @ \cup {<< NextOp(t)[2], "r" >>}]
    /\ UNCHANGED << ledger, stores, disk, streams, templates, made, calls >>

\* Unlock and RUnlock.
Release(t) ==
    /\ Running(t)
    /\ NextOp(t)[1] \in {"Unlock", "RUnlock"}
    /\ th' = [th EXCEPT ![t].list = Tail(@),
                        ![t].snap = @ \ {<< NextOp(t)[2], "w" >>,
                                         << NextOp(t)[2], "r" >>}]
    /\ UNCHANGED << ledger, stores, disk, streams, templates, made, calls >>

\* A read or a write of a shared field.
Access(t) ==
    /\ Running(t)
    /\ NextOp(t)[1] \in {"Read", "Write"}
    /\ th' = [th EXCEPT ![t].list = Tail(@)]
    /\ UNCHANGED << ledger, stores, disk, streams, templates, made, calls >>

\* The call returns.
Leave(t) ==
    /\ th[t].pc = "run"
    /\ th[t].list = << >>
    /\ th' = [th EXCEPT ![t] = Idle]
    /\ UNCHANGED << ledger, stores, disk, streams, templates, made, calls >>

InitLocks ==
    /\ InitAccountG({Ptr(Limits(40, 40, 2, 2))})
    /\ streams = EmptyMap
    /\ usage = ZeroUsage
    /\ consumers = EmptyMap
    /\ FirstTemplate(NewTemplate("T", 1,
                         StreamConfig(<< "_" >>, ProtoSubjects("T"),
                                      MemoryStorage, "")))

LockStep(t) ==
    \/ \E path \in LockPaths : Enter(t, path)
    \/ Acquire(t)
    \/ AcquireRead(t)
    \/ Release(t)
    \/ Access(t)
    \/ Leave(t)

NextLocks == \E t \in Threads : LockStep(t)

SpecLocks == InitLocks /\ [][NextLocks]_vars

\* ------------------------------------------------------------------------
\* The end of the account "G" that holds the template "T":
\* Account.DisableJetStream (jetstream.go:775-812) and
\* Server.shutdownJetStream (jetstream.go:372-395) with jsAccount.delete,
\* beside the deliveries to the dispatcher.
\* ------------------------------------------------------------------------
DisableStep(t) ==
    \/ \E s \in Subjects : DispatchCheck(t, "T", s)
    \/ DispatchAppend(t)
    \/ DispatchAdd(t)
    \/ DispatchValidate(t)
    \/ AcctDisableCall(t, "G")
    \/ AcctDisableLookup(t)
    \/ AcctDisableLedger(t)
    \/ AcctDisableDelete(t)
    \/ ShutdownCall(t)
    \/ ShutdownAccount(t)
    \/ ShutdownClear(t)
    \/ ReturnTemplate(t)

NextDisable == \E t \in Threads : DisableStep(t)

SpecDisable == InitTemplate /\ [][NextDisable]_vars

\* ========================================================================
\* Properties.
\* ========================================================================

Quiescent == \A t \in Threads : th[t].pc \in {"idle", "ret"}

RECURSIVE SumOver(_, _)
SumOver(S, f) ==
    IF S = {} THEN 0
    ELSE LET x == CHOOSE y \in S : TRUE IN f[x] + SumOver(S \ {x}, f)

\* The accounts in the account set of the server's jetStream.
Live == {a \in Accounts : srvJs # 0 /\ jsObj[srvJs].accounts[a] # 0}
LimitsOf(a) == jsaObj[jsObj[srvJs].accounts[a]].limits

\* C1: whenever no call is in flight, the MaxMemory limits of the accounts
\* in the ledger's account set sum to at most the server's MaxMemory, and
\* their MaxStore limits to at most the server's MaxStore.
C1_LimitsWithinServer ==
    (Quiescent /\ srvJs # 0) =>
        /\ SumOver(Live, [a \in Accounts |-> LimitsOf(a).MaxMemory])
               <= jsObj[srvJs].config.MaxMemory
        /\ SumOver(Live, [a \in Accounts |-> LimitsOf(a).MaxStore])
               <= jsObj[srvJs].config.MaxStore

\* C2: whenever no call is in flight, memReserved is the sum of the positive
\* MaxMemory limits of the accounts in the account set, storeReserved the
\* sum of their positive MaxStore limits, and neither is negative.
C2_ReservedIsSumOfLimits ==
    (Quiescent /\ srvJs # 0) =>
        /\ jsObj[srvJs].memReserved =
               SumOver(Live, [a \in Accounts |-> Pos(LimitsOf(a).MaxMemory)])
        /\ jsObj[srvJs].storeReserved =
               SumOver(Live, [a \in Accounts |-> Pos(LimitsOf(a).MaxStore)])
        /\ jsObj[srvJs].memReserved >= 0
        /\ jsObj[srvJs].storeReserved >= 0

\* One call of UpdateJetStreamLimits executed alone on ledger st.
SerialUpdate(st, call) ==
    LET id == st.js.accounts[call.acc]
        old == st.limits[id]
        dl == diffCheckedLimits(old, call.lim)
        e == sufficientResources(st.js, Ptr(dl))
    IN  IF id = 0 THEN [st |-> st, err |-> ErrAcctNotEnabled]
        ELSE IF e # ErrNil THEN [st |-> st, err |-> e]
        ELSE [st |-> [js |-> reserveResources(
                                 releaseResources(st.js, Ptr(old)),
                                 Ptr(call.lim)),
                      limits |-> [st.limits EXCEPT ![id] = call.lim]],
              err |-> ErrNil]

\* The calls cs executed one after another on st: the ledger at the end,
\* and whether every call returned what it returned in the behaviour.
RECURSIVE SerialRun(_, _)
SerialRun(st, cs) ==
    IF cs = << >> THEN [st |-> st, same |-> TRUE]
    ELSE LET one == SerialUpdate(st, Head(cs))
             rest == SerialRun(one.st, Tail(cs))
         IN  [st |-> rest.st,
              same |-> rest.same /\ one.err = Head(cs).err]

Perms(n) == {f \in [1..n -> 1..n] : \A i, j \in 1..n : f[i] = f[j] => i = j}

\* C3: when all the calls of UpdateJetStreamLimits have returned, the
\* reservations and the stored limits are those of executing the calls one
\* after another in some order, with the same results.
C3_UpdatesSerializable ==
    (Len(hist) > 1 /\ \A t \in Threads : th[t].pc = "idle") =>
        \E f \in Perms(Len(hist) - 1) :
            LET run == SerialRun(hist[1],
                           [i \in 1..(Len(hist) - 1) |-> hist[1 + f[i]]])
            IN  run.same /\ run.st = Snapshot

\* The enable of goroutine t is past its admission check, on an account
\* that was not in the account set.
PastAdmission(t) ==
    /\ th[t].op = "AcctEnable"
    /\ th[t].admitted
    /\ ~th[t].seenIn

\* C4: Account.EnableJetStream on an account that is not enabled is admitted
\* iff memReserved + MaxMemory <= server MaxMemory and storeReserved +
\* MaxStore <= server MaxStore; memory that does not fit gives the memory
\* error, else storage that does not fit gives the storage error; nil
\* limits are the dynamic limits {server MaxMemory, server MaxStore, -1, -1}.
C4_EnableAdmission ==
    \A t \in Threads :
        PastAdmission(t) =>
            LET r == th[t]
                cfg == jsObj[r.js].config
                fitsMem == r.seenMem + r.lim.MaxMemory <= cfg.MaxMemory
                fitsStore == r.seenStore + r.lim.MaxStore <= cfg.MaxStore
            IN  /\ r.argNil =>
                      r.lim = Limits(cfg.MaxMemory, cfg.MaxStore, -1, -1)
                /\ r.wrote <=> (fitsMem /\ fitsStore)
                /\ ~fitsMem => r.err = ErrMemory
                /\ (fitsMem /\ ~fitsStore) => r.err = ErrStorage
                /\ (fitsMem /\ fitsStore) => r.err \notin {ErrMemory, ErrStorage}

\* An account is in the ledger, and the enable of a second one was rejected
\* for memory; another enable was rejected for storage only.
C4_Witness ==
    \E t \in Threads :
        /\ PastAdmission(t)
        /\ th[t].pc = "ret"
        /\ th[t].seenMem > 0
        /\ th[t].err = ErrMemory
        /\ th[t].seenStore + th[t].lim.MaxStore > jsObj[th[t].js].config.MaxStore

C4_WitnessStorage ==
    \E t \in Threads :
        PastAdmission(t) /\ th[t].pc = "ret" /\ th[t].err = ErrStorage

\* C5: an Account.EnableJetStream that returns an error has not added the
\* account to the ledger's account set, has reserved nothing and has not
\* made the account report JetStreamEnabled.
C5_FailedEnableLeavesLedger ==
    \A t \in Threads :
        (th[t].pc = "ret" /\ th[t].op = "AcctEnable" /\ th[t].err # ErrNil)
            => (~th[t].wrote /\ th[t].jsa = 0)

\* C8: an Account.DisableJetStream that returns nil has taken from the
\* ledger exactly what the ledger held reserved for the account.
C8_DisableReleasesExactly ==
    \A t \in Threads :
        (th[t].pc = "ret" /\ th[t].op = "AcctDisable" /\ th[t].err = ErrNil)
            => th[t].exact

\* C6: a Server.EnableJetStream called after one has returned nil, and
\* before shutdownJetStream, returns 'jetstream already enabled' and changes
\* neither s.js, nor its config, account set and reservations.
C6_SecondEnableRejected ==
    [][\A t \in Threads :
          (enabledOk /\ th[t].pc = "idle" /\ th'[t].op = "SrvEnable")
              => /\ th'[t].err = ErrAlreadyEnabled
                 /\ th'[t].pc = "ret"
                 /\ srvJs' = srvJs
                 /\ jsObj' = jsObj]_vars

C6_Witness ==
    \E t \in Threads :
        /\ th[t].pc = "ret"
        /\ th[t].op = "SrvEnable"
        /\ th[t].afterOk
        /\ th[t].err = ErrAlreadyEnabled

SetupErrors ==
    {ErrStoreCreate, ErrStoreNotDir, ErrStoreNotWritable, ErrSubscribe,
     ErrExport, ErrGlobal}

\* C7: when a Server.EnableJetStream has failed after its initial checks and
\* nothing else has been called, JetStream is not enabled on the server
\* (s.js is nil, so JetStreamEnabled() is false and JetStreamConfig() nil).
C7_FailedEnableIsAborted ==
    \A t \in Threads :
        (/\ th[t].pc = "ret"
         /\ th[t].op = "SrvEnable"
         /\ th[t].err \in SetupErrors
         /\ calls = 1)
            => srvJs = 0

\* No delivery and no stream creation is in flight.
NoDelivery == \A t \in Threads : th[t].pc \in {"idle", "ret"}

\* C9: at most one stream is created for each canonical name; a delivery
\* under the cap whose AddStream succeeded has created exactly one; a
\* delivery on a subject whose canonical name is a registered stream
\* returns at once and creates none.
C9_OneStreamPerName ==
    /\ \A n \in DOMAIN made : made[n] <= 1
    /\ \A t \in Threads :
          (th[t].op = "Deliver" /\ th[t].did) =>
              (th[t].cn \in DOMAIN streams /\ made[th[t].cn] = 1)
    /\ \A t \in Threads :
          (th[t].op = "Deliver" /\ th[t].sawReg) =>
              (th[t].pc = "ret" /\ ~th[t].did)

\* Two deliveries of one new subject ran concurrently: one created the
\* stream, the other's AddStream was refused for the name.
C9_Witness ==
    \E t, u \in Threads :
        /\ t # u
        /\ th[t].op = "Deliver" /\ th[t].did /\ th[t].pc = "ret"
        /\ th[u].op = "Deliver" /\ th[u].cn = th[t].cn
        /\ th[u].pc = "D_validate" /\ th[u].err = ErrNameInUse

\* A later delivery found the name registered.
C9_WitnessLater ==
    \E t \in Threads :
        th[t].op = "Deliver" /\ th[t].sawReg /\ th[t].pc = "ret"

Count(seq, x) == Cardinality({i \in 1..Len(seq) : seq[i] = x})

\* C10: whenever no delivery is in flight, every registered stream whose
\* config names template T is in T's list exactly once, and every entry of
\* T's list is a registered stream whose config names T.
C10_TemplateListMatchesStreams ==
    NoDelivery =>
        \A tn \in DOMAIN templates.map :
            LET list == templates.map[tn].streams
            IN  /\ \A n \in DOMAIN streams :
                      streams[n].Template = tn => Count(list, n) = 1
                /\ \A i \in 1..Len(list) :
                      /\ list[i] \in DOMAIN streams
                      /\ streams[list[i]].Template = tn

\* A call of checkLimits has returned to goroutine t.
Checked(t) == th[t].op = "checkLimits" /\ th[t].pc = "ret"

\* The registry was full when goroutine t called checkLimits.
SawFull(t) ==
    TemplateLimits.MaxStreams > 0 /\ th[t].seenN >= TemplateLimits.MaxStreams

\* C14: checkLimits rejects on consumer grounds only when the account's
\* MaxConsumers is positive and the config asks for more; in every other
\* case that reaches the consumer check it does not reject on consumer
\* grounds and sets config.MaxConsumers to the account's MaxConsumers.
C14_ConsumerLimit ==
    \A t \in Threads :
        (Checked(t) /\ ~SawFull(t) /\ th[t].cfg.Replicas = 1) =>
            LET reject == /\ TemplateLimits.MaxConsumers > 0
                          /\ th[t].cfg.MaxConsumers >
                                 TemplateLimits.MaxConsumers
            IN  /\ (th[t].err = ErrMaxConsumers) <=> reject
                /\ ~reject =>
                      th[t].out.MaxConsumers = TemplateLimits.MaxConsumers

\* What checkLimits is to return, consumer limits aside.
ExpectedLimitErr(t) ==
    LET c == th[t].cfg
        mb == c.MaxBytes * c.Replicas
    IN  IF SawFull(t) THEN ErrMaxStreams
        ELSE IF c.Replicas # 1 THEN ErrReplicas
        ELSE IF c.MaxBytes > 0 /\ c.Storage = MemoryStorage
                /\ usage.memReserved + mb > TemplateLimits.MaxMemory
        THEN ErrMemory
        ELSE IF c.MaxBytes > 0 /\ c.Storage = FileStorage
                /\ usage.storeReserved + mb > TemplateLimits.MaxStore
        THEN ErrStorage
        ELSE ErrNil

\* C15: consumer limits aside, checkLimits returns an error iff the
\* registry is full, or Replicas is not 1, or MaxBytes is positive and
\* does not fit the storage class beside what is reserved; the checks are
\* made in that order and the first failing one determines the error.
C15_LimitChecksInOrder ==
    \A t \in Threads :
        Checked(t) =>
            IF th[t].err = ErrMaxConsumers
            THEN ExpectedLimitErr(t) \notin {ErrMaxStreams, ErrReplicas}
            ELSE th[t].err = ExpectedLimitErr(t)

\* A config with two replicas that also does not fit was refused for its
\* replicas, and one with a single replica for its storage.
C15_Witness ==
    \E t, u \in Threads :
        /\ Checked(t) /\ th[t].err = ErrReplicas
        /\ th[t].cfg.MaxBytes = 20 /\ th[t].cfg.Storage = MemoryStorage
        /\ usage.memReserved = 30 /\ TemplateLimits.MaxMemory = 40
        /\ Checked(u) /\ th[u].err = ErrStorage

\* C16: with a MaxMemory (MaxStore) limit of -1, limitsExceeded for memory
\* (file) storage is false whatever the usage, and checkLimits never
\* refuses a config for insufficient memory (storage).
C16_UnlimitedNeverExceeded ==
    \A t \in Threads :
        /\ (th[t].op = "limitsExceeded" /\ th[t].pc = "ret"
            /\ th[t].st = MemoryStorage /\ TemplateLimits.MaxMemory = -1)
              => ~th[t].flag
        /\ (th[t].op = "limitsExceeded" /\ th[t].pc = "ret"
            /\ th[t].st = FileStorage /\ TemplateLimits.MaxStore = -1)
              => ~th[t].flag
        /\ (Checked(t) /\ TemplateLimits.MaxMemory = -1)
              => th[t].err # ErrMemory
        /\ (Checked(t) /\ TemplateLimits.MaxStore = -1)
              => th[t].err # ErrStorage

\* A delivery of goroutine t has called Account.AddStream.
Materialized(t) ==
    th[t].op = "Deliver" /\ th[t].cfg # NoConfig
    /\ th[t].pc \in {"D_validate", "ret"}

\* The subject with every "." replaced by "_".
Underscored(subject) ==
    [i \in DOMAIN subject |-> IF subject[i] = "." THEN "_" ELSE subject[i]]

\* C12: the config the dispatcher passes to AddStream for a message on the
\* subject s of the template T is T's prototype with the name s, every "."
\* replaced by "_", the subjects exactly [s] and the template T.Name; and
\* no step changes the prototype of T or what the template store keeps
\* of it.
C12_MaterializedConfig ==
    /\ [](\A t \in Threads :
            Materialized(t) =>
                LET proto == templates.map[th[t].tn].Config
                IN  th[t].cfg =
                        [Name |-> Underscored(th[t].subj),
                         Subjects |-> << th[t].subj >>,
                         Template |-> templates.map[th[t].tn].Name,
                         Storage |-> proto.Storage,
                         MaxBytes |-> proto.MaxBytes,
                         Replicas |-> proto.Replicas,
                         MaxConsumers |-> proto.MaxConsumers])
    /\ [][\A tn \in DOMAIN templates.map :
              /\ templates'.map[tn].Config = templates.map[tn].Config
              /\ templates.map[tn].Config.Name = << "_" >>
              /\ templates.map[tn].Config.Subjects = << << ">" >> >>
              /\ tstore'.mem = tstore.mem
              /\ disk'.templates = disk.templates]_vars

\* A delivery on "a.b" has made the stream "a_b".
C12_Witness ==
    \E t \in Threads :
        /\ Materialized(t) /\ th[t].did /\ th[t].pc = "ret"
        /\ th[t].subj = << "a", ".", "b" >>
        /\ << "a", "_", "b" >> \in DOMAIN streams
        /\ streams[<< "a", "_", "b" >>].Template = "T"

\* C17: a template with MaxStreams = 0 has no cap: a delivery on a subject
\* whose canonical name is not yet a stream is never dropped for the
\* template being at its limit.
C17_ZeroMeansNoCap ==
    \A t \in Threads :
        (th[t].op = "Deliver" /\ th[t].pc = "ret"
         /\ templates.map[th[t].tn].MaxStreams = 0)
            => ~th[t].atLimit

\* A StreamTemplate.Delete that took the template out of jsa.templates
\* has returned to goroutine t.
Deleted(t) ==
    th[t].op = "DeleteTemplate" /\ th[t].pc = "ret" /\ th[t].did

\* C19: StreamTemplate.Delete on a registered template attempts the
\* deletion of every stream of its list that resolves, also when the
\* deletion of an earlier stream or of the template's record in the store
\* has failed, and returns the last error it met (nil if it met none).
C19_DeleteAttemptsAll ==
    \A t \in Threads :
        Deleted(t) => /\ th[t].seenN = th[t].want
                      /\ th[t].err = th[t].last

C11_ListWithinCap ==
    /\ \A tn \in DOMAIN templates.map :
          templates.map[tn].MaxStreams > 0 =>
              Len(templates.map[tn].streams) <= templates.map[tn].MaxStreams
    /\ \A t \in Threads :
          (th[t].op = "Deliver" /\ th[t].atLimit) =>
              ~th[t].did /\ th[t].cfg = NoConfig

\* C13: the account's registry never holds more streams than a positive
\* limits.MaxStreams, whichever of stream creation, materialization,
\* recovery and Account.UpdateJetStreamLimits has run.
C13_StreamsWithinLimit ==
    TemplateLimits.MaxStreams > 0 =>
        Cardinality(DOMAIN streams) <= TemplateLimits.MaxStreams

\* The record of the template tn is in a store of the kind its prototype
\* asks for.
KeptByKind(tn) ==
    IF templates.map[tn].Config.Storage = FileStorage
    THEN tstore.kind = "file" /\ tn \in DOMAIN disk.templates
    ELSE tstore.kind = "mem" /\ tn \in DOMAIN tstore.mem

\* C18: the store through which Account.AddStreamTemplate persists a
\* template is file-backed iff the storage of the template's prototype is
\* file, for the first template of the account and for every later one.
C18_StoreFollowsPrototype ==
    \A t \in Threads :
        (th[t].op = "AddTemplate" /\ th[t].pc = "ret"
         /\ th[t].err = ErrNil
         /\ \A u \in Threads \ {t} : th[u].pc = "idle")
            => KeptByKind(th[t].tn)

\* C21: when Account.AddStream has failed for a name the dispatcher had
\* appended, then at the dispatcher's return every name of the template's
\* list resolves to a registered stream and the entry of the failed
\* creation is gone: the list holds the name at most once, and only for a
\* stream of the template.
C21_FailedCreationPruned ==
    [][\A t \in Threads :
          (th[t].pc = "D_validate" /\ th'[t].pc = "ret") =>
              LET list == templates'.map[th[t].tn].streams
                  cn == th[t].cn
              IN  /\ \A i \in 1..Len(list) : list[i] \in DOMAIN streams'
                  /\ Count(list, cn) <=
                        IF cn \in DOMAIN streams'
                           /\ streams'[cn].Template = th[t].tn
                        THEN 1 ELSE 0]_vars

\* C29: two deliveries on distinct subjects, neither of them dropped at the
\* cap nor refused by Account.AddStream and one of them having made its
\* stream, leave two distinct streams, each capturing its own subject.
C29_OneStreamPerSubject ==
    \A t, u \in Threads :
        (/\ th[t].op = "Deliver" /\ th[t].pc = "ret"
         /\ th[u].op = "Deliver" /\ th[u].pc = "ret"
         /\ th[t].subj # th[u].subj
         /\ ~th[t].atLimit /\ ~th[u].atLimit
         /\ th[t].err = ErrNil /\ th[u].err = ErrNil
         /\ th[t].did)
            => \E n, m \in DOMAIN streams :
                  /\ n # m
                  /\ streams[n].Subjects = << th[t].subj >>
                  /\ streams[m].Subjects = << th[u].subj >>


\* The consumer directories of the stream directory n.
ConsumerDirs(n) == IF n \in DOMAIN disk.consumers THEN disk.consumers[n] ELSE {}

\* The recovery of goroutine t has run the scan to its end.
Recovered(t) ==
    th[t].op = "Recover" /\ th[t].pc = "ret" /\ th[t].err # ErrStreamsDir

C23_ChecksumMismatchSkipped ==
    /\ \A tn \in DOMAIN templates.map :
          Registered(tn) => TemplateDamage(tn) # "badsum"
    /\ \A n \in DOMAIN streams :
          /\ StreamDamage(n) # "badsum"
          /\ \A c \in ConsumersOf(n) : ConsumerDamage(n, c) # "badsum"

\* C24: when the recovery has completed, every name in the list of a
\* registered template is a registered stream, and a stream directory that
\* names a registered template is in that template's list exactly if the
\* stream was re-created.
C24_RecoveredListsResolve ==
    \A t \in Threads :
        (Recovered(t) /\ th[t].err = ErrNil) =>
            /\ \A tn \in DOMAIN templates.map :
                  Registered(tn) =>
                      \A i \in 1..Len(templates.map[tn].streams) :
                          templates.map[tn].streams[i] \in DOMAIN streams
            /\ \A n \in DOMAIN disk.streams :
                  LET tn == disk.streams[n].Template
                  IN  (tn # "" /\ Registered(tn)) =>
                          (Count(templates.map[tn].streams, n) > 0
                              <=> n \in DOMAIN streams)

\* C25: while an Account.EnableJetStream has not yet finished the upgrade
\* of an old store directory, no stream is registered with the account,
\* whoever creates it.
C25_MigrationBeforeStreams ==
    \A t \in Threads :
        (/\ th[t].op = "Recover"
         /\ th[t].pc \in {"E_imports", "E_migrate"}
         /\ disk.legacy # EmptyMap)
            => streams = EmptyMap

\* The handlers of the endpoints that accept no body.
NoBodyOps ==
    {"jsAccountInfoRequest", "jsTemplateListRequest",
     "jsTemplateInfoRequest", "jsTemplateDeleteRequest",
     "jsStreamListRequest", "jsStreamInfoRequest", "jsStreamDeleteRequest",
     "jsStreamPurgeRequest", "jsConsumersRequest", "jsConsumerInfoRequest",
     "jsConsumerDeleteRequest"}

\* C26: on an enabled account, a request with a non-empty body to an
\* endpoint that accepts none is answered -ERR 'bad request', and the
\* handler neither looks anything up nor deletes or purges.
C26_BodyRefused ==
    \A t \in Threads :
        (/\ th[t].pc = "ret"
         /\ th[t].op \in NoBodyOps
         /\ JetStreamEnabled(th[t].acc)
         /\ th[t].msg.kind # "empty")
            => /\ th[t].reply = JetStreamBadRequest
               /\ ~th[t].flag
               /\ ~th[t].did

\* The handlers of the create requests.
CreateOps ==
    {"jsCreateTemplateRequest", "jsCreateStreamRequest",
     "jsCreateConsumerRequest", "jsCreateEphemeralConsumerRequest"}

\* A name token of the subject of the create request r differs from the
\* name in its body.
Mismatch(r) ==
    IF r.op = "jsCreateTemplateRequest" THEN r.tn # r.msg.tname
    ELSE IF r.op = "jsCreateConsumerRequest"
    THEN r.cn # r.msg.sname \/ r.con # r.msg.durable
    ELSE r.cn # r.msg.sname

\* C27: a create request whose body does not decode, or whose name tokens
\* differ from the names in the body, is answered with one -ERR and
\* changes nothing: no creation is called and registries, template lists,
\* stores and ledger stay as they were; from an account that is not
\* enabled the answer is -ERR 'jetstream not enabled for account'
\* whatever the body.
C27_RejectedCreateChangesNothing ==
    [][\A t \in Threads :
          (th[t].pc = "idle" /\ th'[t].op \in CreateOps) =>
              LET r == th'[t]
              IN  /\ ~JetStreamEnabled(r.acc)
                        => r.reply = JetStreamNotEnabled
                  /\ (\/ ~JetStreamEnabled(r.acc)
                      \/ ~Decodes(r.msg)
                      \/ Mismatch(r))
                        => /\ r.pc = "ret"
                           /\ r.reply.kind = "-ERR"
                           /\ ~r.did
                           /\ UNCHANGED << ledger, stores, disk, streams,
                                           templates, made >>]_vars

\* A durable create whose stream token differs from the stream of its
\* body, a stream that exists, has been answered; and so has a stream
\* create with a differing name.
C27_Witness ==
    \E t \in Threads :
        /\ th[t].pc = "ret"
        /\ th[t].op = "jsCreateConsumerRequest"
        /\ th[t].reply = protoErr(ErrStreamNameMismatch)
        /\ th[t].msg.sname \in DOMAIN streams
        /\ th[t].msg.durable = th[t].con

\* C28: the durable create calls AddConsumer only if the stream of the
\* subject exists and the durable name of the body is legal and equals
\* token 4; the ephemeral create only if the stream exists and the body
\* has no durable name, and its +OK carries a name; a request that did
\* not come to AddConsumer is answered -ERR.
C28_ConsumerChecksBeforeAdd ==
    \A t \in Threads :
        LET r == th[t]
        IN  /\ (r.pc = "ret" /\ r.op = "jsCreateConsumerRequest" /\ r.did)
                  => /\ r.cn \in DOMAIN streams
                     /\ LegalName(r.msg.durable)
                     /\ r.msg.durable = r.con
            /\ (/\ r.pc = "ret"
                /\ r.op = "jsCreateEphemeralConsumerRequest" /\ r.did)
                  => /\ r.cn \in DOMAIN streams
                     /\ r.msg.durable = << >>
                     /\ r.reply.kind = "+OK" => r.reply.name # << >>
            /\ (/\ r.pc = "ret"
                /\ r.op \in {"jsCreateConsumerRequest",
                             "jsCreateEphemeralConsumerRequest"}
                /\ ~r.did)
                  => r.reply.kind = "-ERR"

\* The config of a caller normalized field by field on a host with sysMem
\* MiB of memory (0: unknown): every valid field kept, every other one set
\* to its default.
FieldByField(config, sysMem) ==
    LET dyn == Config(IF sysMem > 0 THEN (sysMem \div 4) * 3
                      ELSE JetStreamMaxMemDefault,
                      JetStreamMaxStoreDefault,
                      << TempDir, JetStreamStoreDir >>)
    IN  IF config = Nil THEN dyn
        ELSE Config(IF config[1].MaxMemory > 0 THEN config[1].MaxMemory
                    ELSE dyn.MaxMemory,
                    IF config[1].MaxStore > 0 THEN config[1].MaxStore
                    ELSE dyn.MaxStore,
                    IF config[1].StoreDir # << >> THEN config[1].StoreDir
                    ELSE dyn.StoreDir)

\* C30: the config Server.EnableJetStream runs with is the caller's config
\* normalized field by field: an empty StoreDir is <tmp>/jetstream, a
\* MaxStore that is not positive is 1 TiB, a MaxMemory that is not
\* positive is 3/4 of the host's memory or 256 MiB, and every valid field
\* is as the caller gave it.
C30_ConfigFieldByField ==
    srvJs # 0 =>
        jsObj[srvJs].config = FieldByField(hist[1].config, hist[1].sysMem)
\* The fields of Options in which old and new differ.
ChangedFields(old, new) ==
    {OptionFields[i] : i \in {j \in 1..Len(OptionFields) :
                                  old[OptionFields[j]] # new[OptionFields[j]]}}

\* The options whose Apply a reload from old to new has to run.
ChangedOptions(old, new) ==
    {traceOption(new.Trace) : x \in {"Trace"} \cap ChangedFields(old, new)}
    \cup {debugOption(new.Debug) :
              x \in {"Debug"} \cap ChangedFields(old, new)}
    \cup {tlsOption(new.TLSConfig) :
              x \in {"TLSConfig"} \cap ChangedFields(old, new)}

\* C31: a reload in which a changed field of the options is none of Trace,
\* Debug, TLSConfig and TLSTimeout returns an error, leaves the options of
\* the server as they were and runs no Apply, as does Reload on a server
\* without a config file or with a file that cannot be processed; every
\* other reload returns nil, installs the new options and runs Apply
\* exactly once for each changed trace, debug and tls option.
C31_ReloadAllOrNothing ==
    [][\A t \in Threads :
          (th[t].pc = "idle" /\ th'[t].pc = "ret"
              /\ th'[t].op \in {"Reload", "reloadOptions"}) =>
          LET old == server.opts
              arg == server'.arg
              refused ==
                  \/ th'[t].op = "Reload" /\ server.configFile = ""
                  \/ arg = Nil
                  \/ ChangedFields(old, arg[1])
                         \ {"Trace", "Debug", "TLSConfig", "TLSTimeout"}
                       # {}
          IN  IF refused
              THEN /\ th'[t].err # ErrNil
                   /\ server'.opts = old
                   /\ server'.info = server.info
                   /\ server'.configFile = server.configFile
                   /\ server'.applied = << >>
              ELSE /\ th'[t].err = ErrNil
                   /\ server'.opts = arg[1]
                   /\ Len(server'.applied)
                          = Cardinality(ChangedOptions(old, arg[1]))
                   /\ \A o \in ChangedOptions(old, arg[1]) :
                          Count(server'.applied, o) = 1]_vars

\* A reload that changed the trace option and a field that cannot be
\* reloaded has returned its error.
C31_Witness ==
    \E t \in Threads :
        /\ th[t].op = "reloadOptions"
        /\ th[t].pc = "ret"
        /\ th[t].err = ErrReloadNotSupported("Port")
        /\ server.arg[1].Trace # server.opts.Trace

\* The fields of the ledger: the account set and the reservations.
LedgerFields == {"js.accounts", "js.reserved"}

\* C33: every read of the ledger's account set and of its reservations
\* happens with the ledger lock js.mu held, every write with js.mu held
\* for writing, and so no two goroutines are at accesses of the same
\* ledger field of which one is a write.
C33_LedgerUnderLedgerLock ==
    /\ \A t \in Threads :
          (Running(t) /\ NextOp(t)[2] \in LedgerFields) =>
              /\ NextOp(t)[1] = "Read" => Holds(t, "js.mu", {"r", "w"})
              /\ NextOp(t)[1] = "Write" => Holds(t, "js.mu", {"w"})
    /\ \A t \in Threads : \A u \in Threads \ {t} :
          ~ /\ Running(t) /\ Running(u)
            /\ NextOp(t)[2] \in LedgerFields
            /\ NextOp(t)[2] = NextOp(u)[2]
            /\ NextOp(t)[1] = "Write"
            /\ NextOp(u)[1] \in {"Read", "Write"}

\* The place of a lock in the order server lock, ledger lock, account
\* lock, template lock.
LockRank(l) ==
    IF l = "s.mu" THEN 1 ELSE IF l = "js.mu" THEN 2
    ELSE IF l \in {"a.mu", "jsa.mu"} THEN 3 ELSE 4

\* C34: no goroutine acquires a lock while it holds one that comes later
\* in the order server lock, ledger lock, account lock, template lock, and
\* every read of a template's stream list happens with the template's lock
\* held.
C34_LockOrder ==
    \A t \in Threads :
        Running(t) =>
            /\ NextOp(t)[1] \in {"Lock", "RLock"} =>
                   \A h \in th[t].snap :
                       LockRank(h[1]) <= LockRank(NextOp(t)[2])
            /\ NextOp(t) = Read("t.streams") => Holds(t, "t.mu", {"w"})

\* C35: every operation that has started returns: no goroutine is left
\* inside a call of Server.EnableJetStream, Account.EnableJetStream or
\* shutdownJetStream by a panic, which ends the call without a return and
\* without the unlock of the lock the call holds at that line.
C35_EveryCallReturns ==
    \A t \in Threads : th[t].pc # "crashed"

\* C36: a delivery to the dispatcher that runs beside or after
\* StreamTemplate.Delete of its template never dereferences the nil client
\* (it does not panic at its warnings), and once Delete has cleared the
\* client of a template no step makes the template's list longer.
C36_NoUseAfterDelete ==
    [][/\ \A t \in Threads :
              ~(th'[t].op = "Deliver" /\ th'[t].err = ErrPanic)
       /\ \A tn \in DOMAIN templates.map :
              ~templates.map[tn].tc =>
                  Len(templates'.map[tn].streams)
                      <= Len(templates.map[tn].streams)]_vars

\* The message of the returned delivery r is in the stream named by its
\* canonical name: the dispatcher handed it to the stream it created
\* (jetstream.go:1659), or the stream was registered when the message
\* arrived and its own subscription covers the subject.
MessageStored(r) ==
    \/ r.did
    \/ /\ r.sawReg
       /\ \E i \in DOMAIN streams[r.cn].Subjects :
              streams[r.cn].Subjects[i] = r.subj

\* C37: no message that matches the template is lost: every delivery that
\* has returned and whose canonical name is a registered stream of the
\* template has its message stored in that stream; of two deliveries on
\* one new subject both are handed to the one stream that is created.
C37_NoMessageLost ==
    \A t \in Threads :
        (/\ th[t].op = "Deliver"
         /\ th[t].pc = "ret"
         /\ th[t].cn \in DOMAIN streams
         /\ streams[th[t].cn].Template = th[t].tn) => MessageStored(th[t])

\* Every template object of the account is closed: its internal client is
\* gone and its subscriptions deliver no message to the dispatcher.
TemplatesClosed ==
    \A tn \in DOMAIN templates.map :
        ~templates.map[tn].tc /\ ~templates.map[tn].sub

\* C38: once Account.DisableJetStream has returned nil, and once
\* shutdownJetStream has dropped the server's JetStream, every template the
\* account held has gone through StreamTemplate.Delete: its client is
\* closed and its subscriptions are ended, so that no later message
\* triggers the dispatcher.
C38_TemplatesDeleted ==
    /\ srvJs = 0 => TemplatesClosed
    /\ \A t \in Threads :
          (/\ th[t].op = "AcctDisable"
           /\ th[t].pc = "ret"
           /\ th[t].err = ErrNil) => TemplatesClosed

\* C39: when shutdownJetStream returns, Server.JetStreamEnabled() is false
\* and no account of the server reports Account.JetStreamEnabled(): the
\* step that ends the call leaves no server JetStream and no account with
\* a jsAccount.
C39_ShutdownDisablesAll ==
    [][\A t \in Threads :
          (/\ th[t].op = "Shutdown"
           /\ th[t].pc = "SH_loop"
           /\ th'[t].pc = "ret") =>
              /\ srvJs' = 0
              /\ \A a \in Accounts : accJs'[a] = 0]_vars

\* The record the account's store keeps of the template tn, if any.
TemplateRecords ==
    IF tstore.kind = "mem" THEN tstore.mem ELSE disk.templates

\* C40: when Account.AddStreamTemplate returns an error the new template
\* is not in the registry and the internal client the call made is
\* closed; when it returns nil the template is registered, subscribed and
\* persisted with an empty prototype name.
C40_AddTemplateAllOrNothing ==
    \A t \in Threads :
        (th[t].op = "AddTemplate" /\ th[t].pc = "ret") =>
            IF th[t].err # ErrNil
            THEN IF th[t].admitted
                 THEN /\ ~Registered(th[t].tn)
                      /\ ~templates.map[th[t].tn].tc
                      /\ ~templates.map[th[t].tn].sub
                 ELSE ~th[t].flag
            ELSE /\ Registered(th[t].tn)
                 /\ templates.map[th[t].tn].sub
                 /\ th[t].tn \in DOMAIN TemplateRecords
                 /\ TemplateRecords[th[t].tn].Config.Name = << >>

====
